---- MODULE Spec2Model ----
(***************************************************************************)
(* A model of github.com/secureworks/errors: the MultiError collection     *)
(* (multierror.go) over a heap of Go slices with shared backing arrays,    *)
(* the error-wrapper chain with FramesFrom, Mask and Opaque (errors.go),   *)
(* the errorImpl error with its New, Mask and Opaque, the text and JSON    *)
(* forms of frames (frames.go), the call stack functions (callers.go),     *)
(* the lazily resolved, memoized location of a frame, Errorf               *)
(* (formatter.go) and the task groups of syncerr.                          *)
(***************************************************************************)
EXTENDS Integers, Sequences, FiniteSets, TLC

VARIABLES
    arrays,   \* the backing arrays of the []error slices: arrays[i] has length cap
    objs,     \* the MultiError objects: objs[p] = [arr, len], the slice header of p.errors
    errVar,   \* the caller's `err` variable that AppendInto receives a pointer to
    orig,     \* history: orig[p] is the component list objs[p] was returned with
    last,     \* history: the most recent call, its arguments and its result
    stage,       \* where the caller is: "start", "built", "used", "rebuilt"
    news,     \* the number of errors.New allocations so far
    chain,    \* the error chain under construction (errors.go wrappers)
    out,      \* history: the most recent call on a chain, a text or a stack
    frame,    \* a frame object shared by goroutines: its pc and its cached fields
    gor,      \* the goroutines calling Location() on frame: where each one is
    group,    \* a syncerr task group: its fields, its contexts, its caller
    tasks     \* the goroutines started by the group's Go: where each one is

heapVars == <<arrays, objs, errVar, orig, last, stage>>
chainVars == <<chain, out>>
frameVars == <<frame, gor>>
syncVars == <<group, tasks>>
vars == <<arrays, objs, errVar, orig, last, stage, news, chain, out, frame, gor,
          group, tasks>>

(***************************************************************************)
(* Bounds of the model.                                                    *)
(***************************************************************************)
NumLeaves == 2      \* distinct leaf errors a, b, ...
MaxBase == 3        \* arguments of the NewMultiError call that builds the base
MaxArgs == 2        \* arguments of a later NewMultiError call

(***************************************************************************)
(* Error values.  An error interface value is nil, a typed-nil pointer, a  *)
(* leaf error, a wrapper with an Unwrap chain, a foreign multiError        *)
(* (anything with Errors() []error), a *MultiError pointer, or the error   *)
(* errors.New(text) makes.                                                 *)
(***************************************************************************)
NilErr == [k |-> "nil"]
TNil == [k |-> "tnil"]
Leaf(i) == [k |-> "leaf", id |-> i]
Wrap(e) == [k |-> "wrap", e |-> e]
Cust(s) == [k |-> "custom", errs |-> s]
MErr(p) == [k |-> "merr", p |-> p]

\* src/stdlib.go:11  New(text): a pointer to a new errorString with that
\* message; id tells the allocations apart.
New(text) == [k |-> "new", msg |-> text, id |-> news + 1]

AppendMisuse == "errors.Append used incorrectly: second parameter may not be a multiError"
AppendIntoMisuse == "errors.AppendInto used incorrectly: second parameter may not be a multiError"

\* isNil: a nil interface, or a nil pointer/slice/map/chan/func held in one.
isNil(err) == err.k = "nil" \/ err.k = "tnil" \/ (err.k = "merr" /\ err.p = 0)

\* src/stdlib.go:16  Unwrap(err): the result of err's Unwrap method, else nil.
\* (*MultiError).Unwrap always returns nil (multierror.go:205).
Unwrap(err) ==
    IF err.k \in {"wrap", "withStackTrace", "withFrames", "withMessage", "chain",
                 "tracer", "errorImpl", "wrapError"}
    THEN err.e ELSE NilErr

(***************************************************************************)
(* Go slices.  A slice value is [arr, data, cap]: arr is the index of the  *)
(* heap array it views (0: an array no MultiError holds yet, or none),     *)
(* data its elements, cap its capacity.                                    *)
(***************************************************************************)
NilSlice == [arr |-> 0, data |-> <<>>, cap |-> 0]

\* A composite literal []error{...}: a new array of exactly that size.
Literal(s) == [arr |-> 0, data |-> s, cap |-> Len(s)]

\* The capacity append grows to (gc runtime, small slices of 16-byte elements).
GrowCap(oldCap, need) == IF need > 2 * oldCap THEN need ELSE 2 * oldCap

\* append(sl, elems...): in place when the capacity allows, else a new array.
GoAppend(sl, elems) ==
    IF Len(elems) = 0 THEN sl
    ELSE LET need == Len(sl.data) + Len(elems) IN
         IF need <= sl.cap
         THEN [arr |-> sl.arr, data |-> sl.data \o elems, cap |-> sl.cap]
         ELSE [arr |-> 0, data |-> sl.data \o elems, cap |-> GrowCap(sl.cap, need)]

\* The visible elements of MultiError p: p.errors[0:len].
Comps(p) == IF p = 0 \/ objs[p].len = 0 THEN <<>>
            ELSE SubSeq(arrays[objs[p].arr], 1, objs[p].len)

\* (*MultiError).Errors: nil for a nil or empty MultiError, else the
\* internal slice itself (no copy).
Errors(p) ==
    IF p = 0 \/ objs[p].len = 0 THEN NilSlice
    ELSE [arr |-> objs[p].arr, data |-> Comps(p), cap |-> Len(arrays[objs[p].arr])]

\* (*MultiError).Len
Len_(p) == IF p = 0 THEN 0 ELSE objs[p].len

\* Variant of unwrapMultiErr that does not follow the Unwrap chain.
unwrapMultiErrShallow(err) ==
    IF err.k = "merr" \/ err.k = "custom" THEN err ELSE NilErr

\* unwrapMultiErr: the first multiError in err's chain (errors.As with a
\* *multiError target), NilErr when there is none.
RECURSIVE unwrapMultiErr(_)
unwrapMultiErr(err) ==
    IF err.k = "merr" \/ err.k = "custom" THEN err
    ELSE IF Unwrap(err) # NilErr THEN unwrapMultiErr(Unwrap(err))
    ELSE NilErr

\* flatten: the component slice of a multiError.
RECURSIVE flatten(_)
RECURSIVE flattenLoop(_, _, _)
flattenLoop(errs, i, sl) ==
    IF i > Len(errs) THEN sl
    ELSE LET err == errs[i]
             mm == unwrapMultiErr(err)
         IN  IF isNil(err) THEN flattenLoop(errs, i + 1, sl)
             ELSE IF mm # NilErr
                  THEN flattenLoop(errs, i + 1, GoAppend(sl, flatten(mm).data))
                  ELSE flattenLoop(errs, i + 1, GoAppend(sl, <<err>>))

\* Variant of flatten that copies a foreign multiError's components as they are.
flattenOneLevel(m) ==
    IF m.k = "merr" THEN Errors(m.p) ELSE Literal(m.errs)

flatten(m) ==
    IF m.k = "merr" THEN Errors(m.p)
    ELSE flattenLoop(m.errs, 1, NilSlice)

\* NewMultiError(errors...): [isnil, sl], the result pointer being nil or a
\* new MultiError holding slice sl.
RECURSIVE NewLoop(_, _, _)
NewLoop(errs, i, acc) ==
    IF i > Len(errs) THEN acc
    ELSE LET err == errs[i]
             mm == unwrapMultiErr(err)
         IN  IF isNil(err) THEN NewLoop(errs, i + 1, acc)
             ELSE IF mm # NilErr
                  THEN NewLoop(errs, i + 1,
                          [isnil |-> FALSE, sl |-> GoAppend(acc.sl, flatten(mm).data)])
                  ELSE NewLoop(errs, i + 1,
                          [isnil |-> FALSE, sl |-> GoAppend(acc.sl, <<err>>)])

NewMultiError(errs) == NewLoop(errs, 1, [isnil |-> TRUE, sl |-> NilSlice])

\* Variant of Append that flattens a multiError second operand into the result.
AppendFlattening(receivingErr, appendingErr) ==
    NewMultiError(<<receivingErr, appendingErr>>)

\* Append(receivingErr, appendingErr): [isnil, sl] as for NewMultiError.
Append_(receivingErr, appendingErr) ==
    LET receivingErrIsNil == isNil(receivingErr)
        appendingErrIsNil == isNil(appendingErr)
        mReceivingErr == unwrapMultiErr(receivingErr)
        app == IF unwrapMultiErr(appendingErr) # NilErr
               THEN New(AppendMisuse) ELSE appendingErr
    IN  IF receivingErrIsNil /\ appendingErrIsNil
        THEN [isnil |-> TRUE, sl |-> NilSlice]
        ELSE IF receivingErrIsNil
        THEN [isnil |-> FALSE, sl |-> Literal(<<app>>)]
        ELSE IF appendingErrIsNil
        THEN IF mReceivingErr # NilErr
             THEN [isnil |-> FALSE, sl |-> flatten(mReceivingErr)]
             ELSE [isnil |-> FALSE, sl |-> Literal(<<receivingErr>>)]
        ELSE IF mReceivingErr # NilErr
             THEN [isnil |-> FALSE, sl |-> GoAppend(flatten(mReceivingErr), <<app>>)]
             ELSE [isnil |-> FALSE, sl |-> Literal(<<receivingErr, app>>)]

\* Variant of ErrorOrNil that returns a one-component MultiError as it is.
ErrorOrNilKeepsSingle(p) ==
    IF Len(Errors(p).data) = 0 THEN NilErr ELSE MErr(p)

\* Variant of ErrorOrNil that returns the first of several components.
ErrorOrNilFirst(p) ==
    IF Len(Errors(p).data) = 0 THEN NilErr ELSE arrays[objs[p].arr][1]

\* (*MultiError).ErrorOrNil
ErrorOrNil(p) ==
    IF Len(Errors(p).data) = 0 THEN NilErr
    ELSE IF Len(Errors(p).data) = 1 THEN arrays[objs[p].arr][1]
    ELSE MErr(p)

(***************************************************************************)
(* Is and As (src/stdlib.go:33, 51: the standard library's), with the      *)
(* Is and As methods of *MultiError they call.                             *)
(***************************************************************************)
TypeOf(err) ==
    CASE err.k = "leaf" -> "customErr"
      [] err.k = "new" -> "*errorString"
      [] err.k = "wrap" -> "*wrapError"
      [] err.k = "custom" -> "*multiErrorType"
      [] err.k = "merr" -> "*MultiError"
      [] err.k = "tnil" -> "*ptrErr"
      [] err.k = "withStackTrace" -> "*withStackTrace"
      [] err.k = "withFrames" -> "*withFrames"
      [] err.k = "withMessage" -> "*withMessage"
      [] err.k = "chain" -> "*chain"
      [] err.k = "tracer" -> "*tracerErr"
      [] OTHER -> "nil"

\* Whether err's concrete type can be assigned to a target of type T.
Assignable(err, T) ==
    \/ T = "error"
    \/ TypeOf(err) = T
    \/ T = "multiError" /\ err.k \in {"merr", "custom"}

RECURSIVE isChain(_, _)
RECURSIVE MultiErrorIs(_, _)
isChain(err, target) ==
    IF err = target THEN TRUE
    ELSE IF err.k = "merr" /\ MultiErrorIs(err.p, target) THEN TRUE
    ELSE IF Unwrap(err) = NilErr THEN FALSE
    ELSE isChain(Unwrap(err), target)

Is(err, target) ==
    IF err = NilErr \/ target = NilErr THEN err = target
    ELSE isChain(err, target)

\* (*MultiError).Is
MultiErrorIs(p, target) ==
    \E i \in 1..Len(Errors(p).data) : Is(Errors(p).data[i], target)

\* As returns the value bound to the target, NilErr when it reports false.
RECURSIVE asChain(_, _)
RECURSIVE MultiErrorAsFrom(_, _, _)
asChain(err, T) ==
    IF Assignable(err, T) THEN err
    ELSE IF err.k = "merr" /\ MultiErrorAsFrom(err.p, T, 1) # NilErr
    THEN MultiErrorAsFrom(err.p, T, 1)
    ELSE IF Unwrap(err) = NilErr THEN NilErr
    ELSE asChain(Unwrap(err), T)

As(err, T) == IF err = NilErr THEN NilErr ELSE asChain(err, T)

\* Variant of (*MultiError).As that looks at the last component only.
MultiErrorAsLast(p, T, i) ==
    IF Len(Errors(p).data) = 0 THEN NilErr
    ELSE As(Errors(p).data[Len(Errors(p).data)], T)

\* (*MultiError).As: the loop over merr.Errors() from index i.
MultiErrorAsFrom(p, T, i) ==
    IF i > Len(Errors(p).data) THEN NilErr
    ELSE IF As(Errors(p).data[i], T) # NilErr THEN As(Errors(p).data[i], T)
    ELSE MultiErrorAsFrom(p, T, i + 1)

MultiErrorAs(p, T) == MultiErrorAsFrom(p, T, 1)

(***************************************************************************)
(* The heap after a call returned [isnil, sl]: the new MultiError object   *)
(* and, for a slice that append extended in place, the array it wrote.     *)
(***************************************************************************)
Pad(s, n) == s \o [i \in 1..(n - Len(s)) |-> NilErr]

ArraysAfter(r) ==
    IF r.isnil \/ r.sl.cap = 0 THEN arrays
    ELSE IF r.sl.arr # 0
    THEN [arrays EXCEPT ![r.sl.arr] =
             r.sl.data \o SubSeq(@, Len(r.sl.data) + 1, Len(@))]
    ELSE Append(arrays, Pad(r.sl.data, r.sl.cap))

ObjsAfter(r) ==
    IF r.isnil THEN objs
    ELSE IF r.sl.cap = 0 THEN Append(objs, [arr |-> 0, len |-> 0])
    ELSE IF r.sl.arr # 0
    THEN Append(objs, [arr |-> r.sl.arr, len |-> Len(r.sl.data)])
    ELSE Append(objs, [arr |-> Len(arrays) + 1, len |-> Len(r.sl.data)])

PtrAfter(r) == IF r.isnil THEN MErr(0) ELSE MErr(Len(objs) + 1)

OrigAfter(r) == IF r.isnil THEN orig ELSE Append(orig, r.sl.data)


\* The effect of a call that returned r on the heap.
Returns(r) ==
    /\ arrays' = ArraysAfter(r)
    /\ objs' = ObjsAfter(r)
    /\ orig' = OrigAfter(r)

\* The errors.New calls of Append and of AppendInto: one when the second
\* operand is a non-nil multiError.
Misuses(appendingErr) ==
    IF ~isNil(appendingErr) /\ unwrapMultiErr(appendingErr) # NilErr THEN 1 ELSE 0

\* AppendInto(&errVar, appendingErr): the MultiError it builds.
AppendIntoResult(appendingErr) ==
    IF isNil(appendingErr) THEN NewMultiError(<<errVar>>)
    ELSE Append_(errVar, IF unwrapMultiErr(appendingErr) # NilErr
                         THEN New(AppendIntoMisuse) ELSE appendingErr)

\* AppendInto stores ErrorOrNil of that MultiError in errVar; the MultiError
\* stays on the heap only when ErrorOrNil returns it (nothing else refers
\* to it).
AppendInto(appendingErr) ==
    LET r == AppendIntoResult(appendingErr) IN
    IF r.isnil \/ Len(r.sl.data) = 0
    THEN /\ errVar' = NilErr
         /\ UNCHANGED <<arrays, objs, orig>>
    ELSE IF Len(r.sl.data) = 1
    THEN /\ errVar' = r.sl.data[1]
         /\ UNCHANGED <<arrays, objs, orig>>
    ELSE /\ Returns(r)
         /\ errVar' = PtrAfter(r)

Leaves == {Leaf(i) : i \in 1..NumLeaves}

\* The MultiError pointers a caller can hold, the typed-nil one included.
Ptrs == {MErr(p) : p \in 0..Len(objs)}

NoCall == [op |-> "none", args |-> <<>>, res |-> NilErr]

HeapInit ==
    /\ arrays = <<>>
    /\ objs = <<>>
    /\ orig = <<>>
    /\ errVar = NilErr
    /\ last = NoCall
    /\ stage = "start"
    /\ news = 0

ChainIdle ==
    /\ chain = NilErr
    /\ out = NoCall

\* No goroutine, and a frame with nothing in it.
FrameIdle ==
    /\ frame = [pc |-> 0, function |-> "", file |-> "", line |-> 0, runtimeFn |-> 0]
    /\ gor = <<>>

\* No task group.
SyncIdle ==
    /\ group = [kind |-> "none"]
    /\ tasks = <<>>

Init == HeapInit /\ ChainIdle /\ FrameIdle /\ SyncIdle

(***************************************************************************)
(* Spec: a caller builds a base from plain errors, then makes one call     *)
(* with arguments of any shape (nil, typed nil, wrappers, foreign          *)
(* multiErrors nested to depth two, the MultiErrors built so far), and     *)
(* then either passes an ErrorOrNil result back to NewMultiError or        *)
(* appends to the same receiving MultiError a second time.                 *)
(***************************************************************************)
BaseArgs == {NilErr, Cust(<<>>), Wrap(Leaf(1))} \cup Leaves

BaseSeqs == UNION {[1..n -> BaseArgs] : n \in 0..MaxBase}

Customs ==
    { Cust(<<NilErr, Leaf(1), Leaf(2)>>),
      Cust(<<Wrap(Cust(<<Leaf(2), TNil>>)), NilErr, Leaf(1)>>) }

Args ==
    {NilErr, TNil, Wrap(Leaf(1))} \cup Leaves \cup Ptrs
        \cup {Wrap(e) : e \in Ptrs} \cup Customs

ArgSeqs == UNION {[1..n -> Args] : n \in 0..MaxArgs}

Targets == Leaves \cup Ptrs \cup {NilErr, Wrap(Leaf(1)), New(AppendMisuse)}

Types ==
    {"customErr", "*wrapError", "*errorString", "*ptrErr", "*MultiError",
     "multiError", "error"}

Built ==
    /\ stage' = "built"
    /\ UNCHANGED last
    /\ UNCHANGED <<chainVars, frameVars, syncVars>>

Called(op, args, res, to) ==
    /\ last' = [op |-> op, args |-> args, res |-> res]
    /\ stage' = to
    /\ UNCHANGED <<chainVars, frameVars, syncVars>>

BuildNewMultiError ==
    /\ stage = "start"
    /\ \E errs \in BaseSeqs :
        LET r == NewMultiError(errs) IN
        /\ Returns(r)
        /\ UNCHANGED <<errVar, news>>
        /\ Built

BuildAppend ==
    /\ stage = "start"
    /\ \E receivingErr \in BaseArgs, appendingErr \in BaseArgs :
        LET r == Append_(receivingErr, appendingErr) IN
        /\ Returns(r)
        /\ news' = news + Misuses(appendingErr)
        /\ UNCHANGED errVar
        /\ Built

BuildAppendInto ==
    /\ stage = "start"
    /\ \E appendingErr \in BaseArgs :
        /\ AppendInto(appendingErr)
        /\ news' = news + Misuses(appendingErr)
        /\ Built

CallNewMultiError ==
    /\ stage = "built"
    /\ \E errs \in ArgSeqs :
        LET r == NewMultiError(errs) IN
        /\ Returns(r)
        /\ UNCHANGED <<errVar, news>>
        /\ Called("NewMultiError", errs, PtrAfter(r), "used")

CallAppend ==
    /\ stage = "built"
    /\ \E receivingErr \in Args, appendingErr \in Args :
        LET r == Append_(receivingErr, appendingErr) IN
        /\ Returns(r)
        /\ news' = news + Misuses(appendingErr)
        /\ UNCHANGED errVar
        /\ Called("Append", <<receivingErr, appendingErr>>, PtrAfter(r), "used")

CallAppendInto ==
    /\ stage = "built"
    /\ \E appendingErr \in Args :
        /\ AppendInto(appendingErr)
        /\ news' = news + Misuses(appendingErr)
        /\ Called("AppendInto", <<errVar, appendingErr>>, errVar', "used")

CallErrorOrNil ==
    /\ stage = "built"
    /\ \E m \in Ptrs :
        /\ Called("ErrorOrNil", <<m>>, ErrorOrNil(m.p), "used")
        /\ UNCHANGED <<arrays, objs, orig, errVar, news>>

CallIs ==
    /\ stage = "built"
    /\ \E m \in Ptrs, target \in Targets :
        /\ Called("Is", <<m, target>>, Is(m, target), "used")
        /\ UNCHANGED <<arrays, objs, orig, errVar, news>>

CallAs ==
    /\ stage = "built"
    /\ \E m \in Ptrs, T \in Types :
        /\ Called("As", <<m, New(T)>>, As(m, T), "used")
        /\ UNCHANGED <<arrays, objs, orig, errVar, news>>

\* m.Is(target), the method called directly
CallMultiErrorIs ==
    /\ stage = "built"
    /\ \E m \in Ptrs, target \in Targets :
        /\ Called("m.Is", <<m, target>>, MultiErrorIs(m.p, target), "used")
        /\ UNCHANGED <<arrays, objs, orig, errVar, news>>

\* m.As(&target), the method called directly
CallMultiErrorAs ==
    /\ stage = "built"
    /\ \E m \in Ptrs, T \in Types :
        /\ Called("m.As", <<m, New(T)>>, MultiErrorAs(m.p, T), "used")
        /\ UNCHANGED <<arrays, objs, orig, errVar, news>>

\* newMErr := NewMultiError(m.ErrorOrNil())
Rebuild ==
    /\ stage = "used"
    /\ last.op = "ErrorOrNil"
    /\ LET r == NewMultiError(<<last.res>>) IN
        /\ Returns(r)
        /\ UNCHANGED <<errVar, news>>
        /\ Called("Rebuild", last.args, PtrAfter(r), "rebuilt")

\* m1 := Append(base, x) has returned; m2 := Append(base, y)
AppendAgain ==
    /\ stage = "used"
    /\ last.op = "Append"
    /\ last.args[1].k = "merr"
    /\ \E appendingErr \in Leaves :
        LET r == Append_(last.args[1], appendingErr) IN
        /\ Returns(r)
        /\ UNCHANGED <<errVar, news>>
        /\ last' = [op |-> "AppendAgain", args |-> <<last.args[1], appendingErr>>,
                    res |-> PtrAfter(r), m1 |-> last.res, x |-> last.args[2]]
        /\ stage' = "rebuilt"
        /\ UNCHANGED <<chainVars, frameVars, syncVars>>

\* src/stdlib.go:64  Join(errs...) returns Append(errs...) as an error:
\* the *MultiError that Append returns, nil or not, held in an error
\* interface.  Append takes a receiving and an appending error.
Join(errs) == Append_(errs[1], errs[2])

CallJoin ==
    /\ stage = "built"
    /\ \E errs \in [1..2 -> Args] :
        LET r == Join(errs) IN
        /\ Returns(r)
        /\ news' = news + Misuses(errs[2])
        /\ UNCHANGED errVar
        /\ Called("Join", errs, PtrAfter(r), "used")

\* var err error; AppendInto(&err, a) has returned; AppendInto(&err, b)
AppendIntoAgain ==
    /\ stage = "used"
    /\ last.op = "AppendInto"
    /\ last.args[1] = NilErr
    /\ \E appendingErr \in Args :
        /\ AppendInto(appendingErr)
        /\ news' = news + Misuses(appendingErr)
        /\ last' = [op |-> "AppendIntoAgain", args |-> <<last.args[2], appendingErr>>,
                    res |-> errVar']
        /\ stage' = "rebuilt"
        /\ UNCHANGED <<chainVars, frameVars, syncVars>>

Next ==
    \/ BuildNewMultiError
    \/ BuildAppend
    \/ BuildAppendInto
    \/ CallNewMultiError
    \/ CallAppend
    \/ CallAppendInto
    \/ CallErrorOrNil
    \/ CallIs
    \/ CallAs
    \/ CallMultiErrorIs
    \/ CallMultiErrorAs
    \/ Rebuild
    \/ AppendAgain
    \/ AppendIntoAgain
    \/ CallJoin

Spec == Init /\ [][Next]_vars

(***************************************************************************)
(* Frames.  A frame is [pc, function, file, line]: made from a program     *)
(* counter it has only pc, made synthetically it has pc = 0.               *)
(***************************************************************************)
NumPCs == 2         \* distinct program counters of call sites
MaxDepth == 3       \* wrappers around the root error of a chain

\* NewFrame(function, file, line)
NewFrame(function, file, line) ==
    [pc |-> 0, function |-> function, file |-> file, line |-> line]

\* frameFromPC(pc)
frameFromPC(pc) == [pc |-> pc, function |-> "", file |-> "", line |-> 0]

\* FrameFromPC(pc)
FrameFromPC(pc) == frameFromPC(pc)

\* PCFromFrame(v) for a frame of this package
PCFromFrame(fr) == fr.pc

\* What the runtime knows of a program counter that has symbol information.
FuncName(pc) == "main.fn" \o ToString(pc)
FuncFile(pc) == "/src/fn" \o ToString(pc) \o ".go"
FuncLine(pc) == 10 * pc

\* (*frame).getFunction, getFile, getLine
getFunction(f) ==
    IF f.function # "" THEN f.function
    ELSE IF f.pc # 0 THEN FuncName(f.pc) ELSE "unknown"

getFile(f) ==
    IF f.file # "" THEN f.file
    ELSE IF f.pc # 0 THEN FuncFile(f.pc) ELSE "unknown"

getLine(f) ==
    IF f.line # 0 THEN f.line
    ELSE IF f.pc # 0 THEN FuncLine(f.pc) ELSE 0

\* (*frame).Location
Location(f) == <<getFunction(f), getFile(f), getLine(f)>>

\* newFrameFrom(fr): a synthetic frame with fr's location
newFrameFrom(fr) ==
    [pc |-> 0, function |-> getFunction(fr), file |-> getFile(fr), line |-> getLine(fr)]

\* (frames).Frames
Frames(ff) == [i \in 1..Len(ff) |-> ff[i]]

\* (frames).StackTrace
StackTrace(ff) == [i \in 1..Len(ff) |-> PCFromFrame(ff[i])]

\* framesFromPCs(pcs)
framesFromPCs(pcs) == [i \in 1..Len(pcs) |-> FrameFromPC(pcs[i])]

\* getFrame, getStack: the frames of the program counters the runtime reports
getFrame(pc) == [pc |-> pc, function |-> "", file |-> "", line |-> 0]
getStack(pcs) == [i \in 1..Len(pcs) |-> getFrame(pcs[i])]

(***************************************************************************)
(* The wrappers of errors.go.  Each returns nil for a nil err.             *)
(***************************************************************************)
WithStackTrace(err, pcs) ==
    IF err = NilErr THEN NilErr
    ELSE [k |-> "withStackTrace", e |-> err, frames |-> getStack(pcs)]

WithFrameAt(err, pc) ==
    IF err = NilErr THEN NilErr
    ELSE [k |-> "withFrames", e |-> err, frames |-> <<getFrame(pc)>>]

WithFrame(err, pc) == WithFrameAt(err, pc)

WithFrames(err, ff) ==
    IF err = NilErr THEN NilErr
    ELSE [k |-> "withFrames", e |-> err,
          frames |-> [i \in 1..Len(ff) |->
                        IF PCFromFrame(ff[i]) # 0 THEN frameFromPC(PCFromFrame(ff[i]))
                        ELSE newFrameFrom(ff[i])]]

WithMessage(err, msg) ==
    IF err = NilErr THEN NilErr
    ELSE [k |-> "withMessage", e |-> err, message |-> msg]

\* Chain(message, cause): a node with its own message and stack trace; the
\* cause may be nil.
Chain(message, cause, pcs) ==
    [k |-> "chain", e |-> cause, message |-> message, frames |-> getStack(pcs)]

\* An error of another package that has StackTrace() []uintptr and Unwrap,
\* and no Frames method.
Tracer(err, pcs) == [k |-> "tracer", e |-> err, pcs |-> pcs]

\* err.Error()
RECURSIVE Error(_)
RECURSIVE formatMessages(_)
Error(err) ==
    IF err.k \in {"new", "errorImpl", "wrapError"} THEN err.msg
    ELSE IF err.k \in {"withMessage", "chain"} THEN err.message
    ELSE IF err.k = "leaf" THEN "err" \o ToString(err.id)
    ELSE IF err.k = "custom" THEN "multi"
    ELSE IF err.k = "merr" THEN "[" \o formatMessages(Comps(err.p)) \o "]"
    ELSE Error(err.e)

\* formatMessages: the messages of the components, "; " between them.
formatMessages(errs) ==
    IF errs = <<>> THEN ""
    ELSE IF Len(errs) = 1 THEN Error(errs[1])
    ELSE Error(errs[1]) \o "; " \o formatMessages(Tail(errs))

\* Whether err has StackTrace() []uintptr, and Frames() Frames.
isStackTracer(err) == err.k \in {"withStackTrace", "chain", "tracer", "errorImpl"}
isFramer(err) == err.k \in {"withStackTrace", "chain", "withFrames", "errorImpl"}

\* err.StackTrace() and err.Frames()
ErrStackTrace(err) == IF err.k = "tracer" THEN err.pcs ELSE StackTrace(err.frames)
ErrFrames(err) == Frames(err.frames)

\* Variant of prependFrame that adds the frames at the end.
appendFrame(slice, frames) == slice \o frames

\* prependFrame(slice, frames): append, shift the old elements right, copy
\* the new ones to the front.
prependFrame(slice, frames) ==
    LET n == Len(frames)
        appended == slice \o frames
        shifted == [i \in 1..Len(appended) |->
                      IF i > n THEN appended[i - n] ELSE appended[i]]
    IN  [i \in 1..Len(shifted) |-> IF i <= n THEN frames[i] ELSE shifted[i]]

RECURSIVE FramesFromLoop(_, _, _)

\* Variant of the loop in which a stack trace found earlier in the walk is kept.
FramesFromFirstTrace(err, ff, traceFound) ==
    IF err = NilErr THEN ff
    ELSE IF traceFound THEN ff
    ELSE IF isStackTracer(err) THEN FramesFromLoop(Unwrap(err),
                                        framesFromPCs(ErrStackTrace(err)), TRUE)
    ELSE IF isFramer(err) THEN FramesFromLoop(Unwrap(err),
                                        prependFrame(ff, ErrFrames(err)), FALSE)
    ELSE FramesFromLoop(Unwrap(err), ff, FALSE)

\* The loop of FramesFrom, from err on, with the values of ff and traceFound.
FramesFromLoop(err, ff, traceFound) ==
    IF err = NilErr THEN ff
    ELSE LET errHasTrace == isStackTracer(err)
             found == traceFound \/ errHasTrace
             ff1 == IF isFramer(err)
                    THEN IF found /\ ~errHasTrace THEN ff
                         ELSE IF errHasTrace THEN framesFromPCs(ErrStackTrace(err))
                         ELSE prependFrame(ff, ErrFrames(err))
                    ELSE IF errHasTrace THEN framesFromPCs(ErrStackTrace(err))
                    ELSE ff
         IN  FramesFromLoop(Unwrap(err), ff1, found)

FramesFrom(err) == FramesFromLoop(err, <<>>, FALSE)

\* Variant of Mask that keeps err as the cause.
MaskKeepingCause(err) ==
    IF err = NilErr THEN NilErr ELSE WithMessage(err, Error(err))

\* Mask(err)
Mask(err) == IF err = NilErr THEN NilErr ELSE New(Error(err))

\* Variant of Opaque that does not attach the frames again.
OpaqueWithoutFrames(err) == Mask(err)

\* Opaque(err) of errors.go
Opaque(err) ==
    IF err = NilErr THEN NilErr
    ELSE IF Len(FramesFrom(err)) > 0 THEN WithFrames(Mask(err), FramesFrom(err))
    ELSE Mask(err)

(***************************************************************************)
(* SpecChain: a caller makes an error with New or Chain, wraps it up to    *)
(* MaxDepth times, and calls FramesFrom, Mask or Opaque on the result.     *)
(***************************************************************************)
PCs == 1..NumPCs

\* The call stacks a WithStackTrace call site can have.
Stacks == {<<pc, caller>> : pc \in PCs, caller \in PCs}

\* The frame lists a caller passes to WithFrames.
FrameLists ==
    { <<>>,
      <<NewFrame("pkg.fn", "/src/a.go", 7)>>,
      <<FrameFromPC(1), NewFrame("", "", 0)>> }

RECURSIVE Depth(_)
Depth(err) == IF Unwrap(err) = NilErr THEN 0 ELSE 1 + Depth(Unwrap(err))

Building ==
    /\ out.op = "none"
    /\ Depth(chain) < MaxDepth
    /\ out' = out
    /\ UNCHANGED <<heapVars, frameVars, syncVars>>

DoNew ==
    /\ out.op = "none"
    /\ chain = NilErr
    /\ chain' = New("boom")
    /\ news' = news + 1
    /\ out' = out
    /\ UNCHANGED <<heapVars, frameVars, syncVars>>

DoWithFrame ==
    /\ Building
    /\ \E pc \in PCs : chain' = WithFrame(chain, pc)
    /\ UNCHANGED news

DoWithFrames ==
    /\ Building
    /\ \E ff \in FrameLists : chain' = WithFrames(chain, ff)
    /\ UNCHANGED news

DoWithStackTrace ==
    /\ Building
    /\ \E pcs \in Stacks : chain' = WithStackTrace(chain, pcs)
    /\ UNCHANGED news

DoWithMessage ==
    /\ Building
    /\ chain' = WithMessage(chain, "context")
    /\ UNCHANGED news

DoChain ==
    /\ Building
    /\ chain' = Chain("failed", chain, <<1, NumPCs>>)
    /\ UNCHANGED news

DoTracer ==
    /\ Building
    /\ chain # NilErr
    /\ chain' = Tracer(chain, <<NumPCs, 1>>)
    /\ UNCHANGED news

CallFramesFrom ==
    /\ out.op = "none"
    /\ out' = [op |-> "FramesFrom", args |-> <<chain>>, res |-> FramesFrom(chain)]
    /\ UNCHANGED <<chain, news>>
    /\ UNCHANGED <<heapVars, frameVars, syncVars>>

CallMask ==
    /\ out.op = "none"
    /\ out' = [op |-> "Mask", args |-> <<chain>>, res |-> Mask(chain)]
    /\ news' = IF chain = NilErr THEN news ELSE news + 1
    /\ UNCHANGED chain
    /\ UNCHANGED <<heapVars, frameVars, syncVars>>

CallOpaque ==
    /\ out.op = "none"
    /\ out' = [op |-> "Opaque", args |-> <<chain>>, res |-> Opaque(chain)]
    /\ news' = IF chain = NilErr THEN news ELSE news + 1
    /\ UNCHANGED chain
    /\ UNCHANGED <<heapVars, frameVars, syncVars>>

\* The wrappers called with no error to wrap: nil, or a nil *errorType held
\* in an error interface (errors.WithFrame((*errorType)(nil)) and the like).
Wrappers == {"WithFrame", "WithFrameAt", "WithFrames", "WithStackTrace", "WithMessage"}

CallWrapper(name, err, pcs, ff) ==
    CASE name = "WithFrame" -> WithFrame(err, pcs[1])
      [] name = "WithFrameAt" -> WithFrameAt(err, pcs[2])
      [] name = "WithFrames" -> WithFrames(err, ff)
      [] name = "WithStackTrace" -> WithStackTrace(err, pcs)
      [] name = "WithMessage" -> WithMessage(err, "new msg")

CallWithNil ==
    /\ out.op = "none"
    /\ chain = NilErr
    /\ \E name \in Wrappers, err \in {NilErr, TNil}, pcs \in Stacks, ff \in FrameLists :
        out' = [op |-> name, args |-> <<err>>, res |-> CallWrapper(name, err, pcs, ff)]
    /\ UNCHANGED <<chain, news>>
    /\ UNCHANGED <<heapVars, frameVars, syncVars>>

NextChain ==
    \/ DoNew
    \/ DoWithFrame
    \/ DoWithFrames
    \/ DoWithStackTrace
    \/ DoWithMessage
    \/ DoChain
    \/ DoTracer
    \/ CallFramesFrom
    \/ CallMask
    \/ CallOpaque
    \/ CallWithNil

SpecChain == Init /\ [][NextChain]_vars

(***************************************************************************)
(* The errorImpl API: one error type holding a message, a wrapped error    *)
(* and the frames of the call that made it.  Its constructor is named New  *)
(* in the source; it is NewErrorImpl here, New being the constructor of    *)
(* stdlib.go.  A panic is the value Panic(text) in place of the result.    *)
(***************************************************************************)
\* &errorImpl{msg, error, frames}
ErrorImpl(msg, err, ff) == [k |-> "errorImpl", msg |-> msg, e |-> err, frames |-> ff]

\* panic(text)
Panic(text) == [k |-> "panic", msg |-> text]
isPanic(v) == v.k = "panic"

\* A string argument of New(args ...interface{}).
Str(s) == [k |-> "string", v |-> s]

\* strings.Contains(s, substr)
Contains(s, substr) ==
    \E i \in 1..(Len(s) - Len(substr) + 1) : SubSeq(s, i, i + Len(substr) - 1) = substr

\* fmt.Sprintf(format, a...) and fmt.Errorf(format, a...).Error() for
\* operands a that are errors and formats whose verbs are s, w and %:
\* a verb without an operand left prints %!verb(MISSING), a % that ends
\* the format prints %!(NOVERB), %% prints %, an operand no verb used is
\* reported as %!(EXTRA type=value).  %s and %w print the operand's Error()
\* ((*errorImpl).Format for s and v; %w is only met under Errorf, New
\* choosing Errorf whenever the format has "%w").
RECURSIVE doPrintf(_, _)
doPrintf(format, a) ==
    IF format = ""
    THEN IF a = <<>> THEN ""
         ELSE "%!(EXTRA "
              \o (IF a[1].k = "errorImpl" THEN "*errors.errorImpl" ELSE "*errors.errorString")
              \o "=" \o Error(a[1]) \o ")"
    ELSE IF Head(format) # "%" THEN Head(format) \o doPrintf(Tail(format), a)
    ELSE IF Len(format) = 1 THEN "%!(NOVERB)" \o doPrintf("", a)
    ELSE LET verb == Head(Tail(format))
             rest == Tail(Tail(format))
         IN  IF verb = "%" THEN "%" \o doPrintf(rest, a)
             ELSE IF a = <<>> THEN "%!" \o verb \o "(MISSING)" \o doPrintf(rest, a)
             ELSE Error(a[1]) \o doPrintf(rest, Tail(a))

\* New(args ...interface{}) called with the stack pcs above it: getStack(3)
\* is the stack of New's caller.  With "%w" in msg the text is that of
\* fmt.Errorf(msg, args...), else the wrapped error is taken out of args
\* and the text is fmt.Sprintf(msg, args...).
NewErrorImpl(args, pcs) ==
    IF Len(args) = 0 THEN ErrorImpl("", NilErr, getStack(pcs))
    ELSE IF args[1].k # "string"
    THEN IF Len(args) > 1
         THEN Panic("errors.New requires no additional arguments are provided when the first argument is an error")
         ELSE ErrorImpl("", args[1], getStack(pcs))
    ELSE LET msg == args[1].v
             rest == Tail(args)
             errs == {i \in 1..Len(rest) : rest[i].k # "string"}
         IN  IF Cardinality(errs) > 1
             THEN Panic("errors.New does not support multiple error arguments")
             ELSE LET wrappedIndex == IF errs = {} THEN 0 ELSE CHOOSE i \in errs : TRUE
                      wrapped == IF errs = {} THEN NilErr ELSE rest[wrappedIndex]
                  IN  IF Contains(msg, "%w")
                      THEN IF wrapped = NilErr
                           THEN Panic("errors.New requires a wrapped error when using the %w verb")
                           ELSE ErrorImpl(doPrintf(msg, rest), wrapped, getStack(pcs))
                      ELSE ErrorImpl(
                               doPrintf(msg, IF wrapped = NilErr THEN rest
                                             ELSE SubSeq(rest, 1, wrappedIndex - 1)
                                                  \o SubSeq(rest, wrappedIndex + 1, Len(rest))),
                               wrapped, getStack(pcs))

\* The program counters of Mask's and Opaque's own frames.
pcMask == NumPCs + 1
pcOpaque == NumPCs + 2

\* Mask(err) of the errorImpl API, called with the stack pcs above it: New
\* is called from Mask, so Mask's frame is the top of the stack New records.
MaskImpl(err, pcs) ==
    IF isNil(err) THEN NilErr
    ELSE NewErrorImpl(<<Str(Error(err))>>, <<pcMask>> \o pcs)

\* Opaque(err) of the errorImpl API.  When err is a Framer the copies of its
\* frames go to a variable ff declared with := inside the if block, which
\* shadows the ff the result is built from: that one stays nil.  Otherwise ff
\* is getStack(3), the stack of Opaque's caller, which for a cause is Opaque.
RECURSIVE OpaqueImpl(_, _)
OpaqueImpl(err, pcs) ==
    IF isNil(err) THEN NilErr
    ELSE LET ff == IF isFramer(err) THEN <<>> ELSE getStack(pcs)
             cause == Unwrap(err)
         IN  ErrorImpl(Error(err), OpaqueImpl(cause, <<pcOpaque>> \o pcs), ff)

(***************************************************************************)
(* SpecImpl: a caller builds an error with New of the errorImpl API, over  *)
(* a root of its own or of the standard library, and calls Mask or Opaque  *)
(* on it.                                                                  *)
(***************************************************************************)
\* The message texts a caller passes.
ImplMsgs == {"", "a", "%", "%%", "%s", "%w", "a%", "a%s", "a%w", "%%w", "s%", "%w%"}

\* The wrapping calls a chain may have.
MaxWraps == 2

\* The argument lists of a call to New: a text for a root; the chain alone,
\* a format and the chain, or lists New panics on, for a wrapper.
NewArgs ==
    IF chain = NilErr THEN {<<>>} \cup {<<Str(text)>> : text \in ImplMsgs}
    ELSE {<<chain>>, <<chain, Str("a")>>, <<Str("a"), chain, chain>>}
         \cup {<<Str(format), chain>> : format \in {"a", "%w", "a%w", "%s", "%%", "%", "%w%s"}}

\* errors.New(text) of the standard library, or of another package
ImplForeign ==
    /\ out.op = "none"
    /\ chain = NilErr
    /\ \E text \in ImplMsgs : chain' = New(text)
    /\ news' = news + 1
    /\ out' = out
    /\ UNCHANGED <<heapVars, frameVars, syncVars>>

\* New(args...): the result is the new chain, a panic ends the run
ImplNew ==
    /\ out.op = "none"
    /\ Depth(chain) < MaxWraps
    /\ \E args \in NewArgs :
         LET res == NewErrorImpl(args, <<1, NumPCs>>)
         IN  IF isPanic(res)
             THEN /\ out' = [op |-> "New", args |-> args, res |-> res]
                  /\ chain' = chain
             ELSE /\ chain' = res
                  /\ out' = out
    /\ UNCHANGED news
    /\ UNCHANGED <<heapVars, frameVars, syncVars>>

ImplCallMask ==
    /\ out.op = "none"
    /\ \E pcs \in {<<1>>, <<NumPCs, 1>>} :
         out' = [op |-> "MaskImpl", args |-> <<chain>>, pcs |-> pcs,
                 res |-> MaskImpl(chain, pcs)]
    /\ UNCHANGED <<chain, news>>
    /\ UNCHANGED <<heapVars, frameVars, syncVars>>

ImplCallOpaque ==
    /\ out.op = "none"
    /\ \E pcs \in {<<1>>, <<NumPCs, 1>>} :
         out' = [op |-> "OpaqueImpl", args |-> <<chain>>, pcs |-> pcs,
                 res |-> OpaqueImpl(chain, pcs)]
    /\ UNCHANGED <<chain, news>>
    /\ UNCHANGED <<heapVars, frameVars, syncVars>>

\* parseFormatString(f, numValues) of formatter.go for formats without
\* flags, widths and argument indexes: the verbs that consume an operand,
\* each with the 0-based index of its operand, or the error text.  A verb
\* is % and a letter; %% consumes nothing; a % that nothing parsable
\* follows is an invalid format string.
VerbLetters == {"a", "s", "v", "w"}

RECURSIVE parseFormatString(_, _, _, _)
parseFormatString(f, numValues, nextValueIndex, verbs) ==
    IF f = "" THEN [verbs |-> verbs, err |-> ""]
    ELSE IF Head(f) # "%"
    THEN parseFormatString(Tail(f), numValues, nextValueIndex, verbs)
    ELSE IF Len(f) < 2 THEN [verbs |-> <<>>, err |-> "invalid format string"]
    ELSE LET letter == Head(Tail(f)) IN
         IF letter = "%"
         THEN parseFormatString(Tail(Tail(f)), numValues, nextValueIndex, verbs)
         ELSE IF letter \notin VerbLetters
         THEN [verbs |-> <<>>, err |-> "invalid format string"]
         ELSE IF nextValueIndex >= numValues
         THEN [verbs |-> <<>>, err |-> "invalid format string: not enough arguments"]
         ELSE parseFormatString(Tail(Tail(f)), numValues, nextValueIndex + 1,
                                Append(verbs, [letter |-> letter, idx |-> nextValueIndex]))

\* Errorf(format, values...) of formatter.go, values being errors and pc
\* the caller's frame (getFrame(3)): a format that does not parse gives an
\* errors.New of the standard library; else every non-nil operand of a %w
\* is wrapped in a withFrames and the result is that of fmt.Errorf, a
\* *fmt.wrapError when a %w has an operand and an error with the text alone
\* when none has.
Errorf(format, values, pc) ==
    LET parsed == parseFormatString(format, Len(values), 0, <<>>)
        wrapped == {i \in 1..Len(values) :
                      /\ values[i] # NilErr
                      /\ \E j \in 1..Len(parsed.verbs) :
                            /\ parsed.verbs[j].letter = "w"
                            /\ parsed.verbs[j].idx = i - 1}
        vals == [i \in 1..Len(values) |->
                   IF i \in wrapped
                   THEN [k |-> "withFrames", e |-> values[i], frames |-> <<getFrame(pc)>>]
                   ELSE values[i]]
    IN  IF parsed.err # ""
        THEN New("%!e(errors.Errorf=failed: " \o parsed.err \o ")")
        ELSE IF wrapped = {} THEN New(doPrintf(format, vals))
        ELSE [k |-> "wrapError", msg |-> doPrintf(format, vals),
              e |-> vals[CHOOSE i \in wrapped : TRUE]]

\* The formats a caller passes to Errorf.
ErrorfFormats == {"a", "a%s", "a%w", "%w", "%s%w", "%w%w", "%%w", "a%", "%:"}

\* _ = Errorf(format, chain)
ImplCallErrorf ==
    /\ out.op = "none"
    /\ chain # NilErr
    /\ \E format \in ErrorfFormats, pc \in 1..NumPCs :
         out' = [op |-> "Errorf", args |-> <<format, chain>>, pcs |-> <<pc>>,
                 res |-> Errorf(format, <<chain>>, pc)]
    /\ news' = news + 1
    /\ UNCHANGED chain
    /\ UNCHANGED <<heapVars, frameVars, syncVars>>

NextImpl ==
    \/ ImplForeign
    \/ ImplNew
    \/ ImplCallMask
    \/ ImplCallOpaque
    \/ ImplCallErrorf

SpecImpl == Init /\ [][NextImpl]_vars

(***************************************************************************)
(* Text and JSON forms of frames.  A Go string is a TLA+ string of one-    *)
(* byte characters.  Bell stands for the control character U+0007, which a *)
(* TLA+ string literal cannot hold.                                        *)
(***************************************************************************)
Bell == "^"

\* Variant of escape for an escaper without the backslash pair.
RECURSIVE escapeKeepingBackslash(_)
escapeKeepingBackslash(s) ==
    IF s = "" THEN ""
    ELSE (CASE Head(s) = "\t" -> "\\t"
            [] Head(s) = "\n" -> "\\n"
            [] Head(s) = "\"" -> "\\\""
            [] OTHER -> Head(s)) \o escapeKeepingBackslash(Tail(s))

\* escaper.Replace(s): every old string is one byte, each byte of s is
\* replaced on its own.
RECURSIVE escape(_)
escape(s) ==
    IF s = "" THEN ""
    ELSE (CASE Head(s) = "\\" -> "\\\\"
            [] Head(s) = "\t" -> "\\t"
            [] Head(s) = "\n" -> "\\n"
            [] Head(s) = "\"" -> "\\\""
            [] OTHER -> Head(s)) \o escape(Tail(s))

\* unescaper.Replace(s): scanning from the left, a two-byte old string at
\* the current position is replaced and skipped; any other byte is copied.
RECURSIVE unescape(_)
unescape(s) ==
    IF s = "" THEN ""
    ELSE IF Len(s) >= 2 /\ SubSeq(s, 1, 2) \in {"\\t", "\\n", "\\\"", "\\\\"}
    THEN (CASE SubSeq(s, 1, 2) = "\\t" -> "\t"
            [] SubSeq(s, 1, 2) = "\\n" -> "\n"
            [] SubSeq(s, 1, 2) = "\\\"" -> "\""
            [] OTHER -> "\\") \o unescape(SubSeq(s, 3, Len(s)))
    ELSE Head(s) \o unescape(Tail(s))

\* bytes.Index(s, sep), bytes.IndexByte(s, c): the offset from 0 of the
\* first occurrence, or -1.
Index(s, sep) ==
    LET at == {i \in 1..(Len(s) - Len(sep) + 1) : SubSeq(s, i, i + Len(sep) - 1) = sep}
    IN  IF at = {} THEN -1 ELSE (CHOOSE i \in at : \A j \in at : i <= j) - 1

\* bytes.TrimSpace(s)
RECURSIVE TrimSpace(_)
TrimSpace(s) ==
    IF s = "" THEN s
    ELSE IF Head(s) \in {" ", "\t", "\n", "\r", "\f"} THEN TrimSpace(Tail(s))
    ELSE IF SubSeq(s, Len(s), Len(s)) \in {" ", "\t", "\n", "\r", "\f"}
    THEN TrimSpace(SubSeq(s, 1, Len(s) - 1))
    ELSE s

\* bytes.Split(s, []byte{'\n'})
RECURSIVE Split(_)
Split(s) ==
    IF Index(s, "\n") < 0 THEN <<s>>
    ELSE <<SubSeq(s, 1, Index(s, "\n"))>> \o Split(SubSeq(s, Index(s, "\n") + 2, Len(s)))

\* strconv.ParseInt(s, 10, 64) for texts too short to overflow: an optional
\* sign, then one or more decimal digits.
RECURSIVE ParseUint(_)
ParseUint(s) ==
    IF s = "" THEN 0
    ELSE 10 * ParseUint(SubSeq(s, 1, Len(s) - 1))
         + Index("0123456789", SubSeq(s, Len(s), Len(s)))
ParseInt(s) ==
    LET digits == IF s # "" /\ Head(s) \in {"+", "-"} THEN Tail(s) ELSE s
    IN  IF digits = "" \/ \E i \in 1..Len(digits) : Index("0123456789", SubSeq(digits, i, i)) < 0
        THEN [ok |-> FALSE, v |-> 0]
        ELSE [ok |-> TRUE, v |-> IF Head(s) = "-" THEN 0 - ParseUint(digits) ELSE ParseUint(digits)]

\* (*frame).Format for %+v without a width: the escaped function, a newline
\* and a tab, the escaped file, a colon, strconv.Itoa(line).
FormatPlusV(f) ==
    escape(Location(f)[1]) \o "\n" \o "\t" \o escape(Location(f)[2]) \o ":"
        \o ToString(Location(f)[3])

\* (Frames).Format for %+v: a newline before each frame.
RECURSIVE FramesFormatPlusV(_)
FramesFormatPlusV(ff) ==
    IF ff = <<>> THEN "" ELSE "\n" \o FormatPlusV(Head(ff)) \o FramesFormatPlusV(Tail(ff))

\* The errors of the text parser: nil, or fmt.Errorf("%w: ...", sentinel, line).
NoErr == [wraps |-> "nil"]
ParseErr(sentinel, line) == [wraps |-> sentinel, line |-> line]

\* The loop of framesFromBytes over lines from index on, and the check
\* after it: the error set before a break is replaced when index < len(lines).
RECURSIVE scanFrames(_, _, _)
scanFrames(lines, index, rawFrames) ==
    LET function == TrimSpace(lines[index + 1])
        file == TrimSpace(lines[index + 2])
        colonIdx == Index(file, ":")
        line == IF colonIdx > 0 THEN ParseInt(SubSeq(file, colonIdx + 2, Len(file)))
                ELSE [ok |-> TRUE, v |-> 0]
        after(err) == [frames |-> rawFrames,
                       err |-> IF index < Len(lines)
                               THEN ParseErr("errIncompleteFrame", lines[index + 1])
                               ELSE err]
    IN  IF index + 2 > Len(lines) THEN after(NoErr)
        ELSE IF ~line.ok THEN after(ParseErr("errMalformedFrame", lines[index + 2]))
        ELSE scanFrames(lines, index + 2,
                        Append(rawFrames,
                               NewFrame(unescape(function),
                                        unescape(IF colonIdx > 0 THEN SubSeq(file, 1, colonIdx)
                                                 ELSE file),
                                        line.v)))

\* framesFromBytes(byt): trims, drops a first line of message context, splits
\* into lines and scans them two by two.
framesFromBytes(byt) ==
    LET trimmed == TrimSpace(byt)
        firstNL == Index(trimmed, "\n")
        firstNT == Index(trimmed, "\n\t")
    IN  IF trimmed = "" THEN [frames |-> <<>>, err |-> NoErr]
        ELSE scanFrames(Split(IF firstNL > 0 /\ firstNT > 0 /\ firstNL # firstNT
                              THEN SubSeq(trimmed, firstNL + 2, Len(trimmed))
                              ELSE trimmed),
                        0, <<>>)

\* FramesFromBytes(byt): nil frames with the error, else the frames.
FramesFromBytes(byt) ==
    IF framesFromBytes(byt).err # NoErr
    THEN [frames |-> <<>>, err |-> framesFromBytes(byt).err]
    ELSE [frames |-> Frames(framesFromBytes(byt).frames), err |-> NoErr]

\* strconv.Quote(s), the %q of fmt.Sprintf: s between double quotes, with
\* \\ \" \n \t \r \f \a for those characters.
RECURSIVE QuoteBody(_)
QuoteBody(s) ==
    IF s = "" THEN ""
    ELSE (CASE Head(s) = "\\" -> "\\\\"
            [] Head(s) = "\"" -> "\\\""
            [] Head(s) = "\n" -> "\\n"
            [] Head(s) = "\t" -> "\\t"
            [] Head(s) = "\r" -> "\\r"
            [] Head(s) = "\f" -> "\\f"
            [] Head(s) = Bell -> "\\a"
            [] OTHER -> Head(s)) \o QuoteBody(Tail(s))
Quote(s) == "\"" \o QuoteBody(s) \o "\""

\* (frame).MarshalJSON
frameMarshalJSON(f) ==
    "{\"function\":" \o Quote(escape(Location(f)[1])) \o ",\"file\":"
        \o Quote(escape(Location(f)[2])) \o ",\"line\":" \o ToString(Location(f)[3]) \o "}"

\* The JSON scanner on a string literal whose opening quote is before
\* position i: the escapes of JSON are \" \\ \/ \b \f \n \r \t \u; any other
\* escape, a raw control character, or the end of the text is an error.
\* (\b and \u, which Quote does not write for these characters, are left out.)
RECURSIVE readString(_, _, _)
readString(text, i, acc) ==
    LET c == SubSeq(text, i, i)
        e == SubSeq(text, i + 1, i + 1)
    IN  IF i > Len(text) THEN [ok |-> FALSE]
        ELSE IF c = "\"" THEN [ok |-> TRUE, val |-> acc, next |-> i + 1]
        ELSE IF c \in {"\t", "\n", "\r", "\f", Bell} THEN [ok |-> FALSE]
        ELSE IF c # "\\" THEN readString(text, i + 1, acc \o c)
        ELSE IF i + 1 > Len(text) \/ e \notin {"\"", "\\", "/", "f", "n", "r", "t"}
        THEN [ok |-> FALSE]
        ELSE readString(text, i + 2,
                        acc \o (CASE e = "f" -> "\f" [] e = "n" -> "\n" [] e = "r" -> "\r"
                                  [] e = "t" -> "\t" [] OTHER -> e))

\* json.Unmarshal(byt, &rawFrames) on an array of objects written as
\* frameMarshalJSON writes them, the first object starting at position i.
RECURSIVE readFrames(_, _, _)
readFrames(text, i, acc) ==
    LET lit(j, l) == SubSeq(text, j, j + Len(l) - 1) = l
        fn == readString(text, i + 13, "")
        file == readString(text, fn.next + 9, "")
        from == file.next + 8
        to == CHOOSE k \in from..(Len(text) + 1) :
                  /\ \A j \in from..(k - 1) : Index("0123456789", SubSeq(text, j, j)) >= 0
                  /\ k > Len(text) \/ Index("0123456789", SubSeq(text, k, k)) < 0
        fr == [Function |-> fn.val, File |-> file.val,
               Line |-> ParseUint(SubSeq(text, from, to - 1))]
    IN  IF ~lit(i, "{\"function\":\"") \/ ~fn.ok THEN [ok |-> FALSE]
        ELSE IF ~lit(fn.next, ",\"file\":\"") \/ ~file.ok THEN [ok |-> FALSE]
        ELSE IF ~lit(file.next, ",\"line\":") \/ to = from THEN [ok |-> FALSE]
        ELSE IF lit(to, "},") THEN readFrames(text, to + 2, Append(acc, fr))
        ELSE IF lit(to, "}]") /\ to + 1 = Len(text) THEN [ok |-> TRUE, frames |-> Append(acc, fr)]
        ELSE [ok |-> FALSE]

\* (Frames).MarshalJSON: null for no frames; json.Marshal of a frame fails
\* when the text its MarshalJSON wrote is not valid JSON.
RECURSIVE joinFrames(_)
joinFrames(ff) ==
    IF Len(ff) = 1 THEN frameMarshalJSON(ff[1])
    ELSE frameMarshalJSON(ff[1]) \o "," \o joinFrames(Tail(ff))
FramesMarshalJSON(ff) ==
    IF Len(ff) = 0 THEN [byt |-> "null", err |-> FALSE]
    ELSE IF \E i \in 1..Len(ff) : ~readFrames("[" \o frameMarshalJSON(ff[i]) \o "]", 2, <<>>).ok
    THEN [byt |-> "", err |-> TRUE]
    ELSE [byt |-> "[" \o joinFrames(ff) \o "]", err |-> FALSE]

\* framesFromJSON(byt) and FramesFromJSON(byt), which copies its frames
FramesFromJSON(byt) ==
    LET raw == IF byt = "[]" THEN [ok |-> TRUE, frames |-> <<>>]
               ELSE IF SubSeq(byt, 1, 1) # "[" THEN [ok |-> FALSE]
               ELSE readFrames(byt, 2, <<>>)
    IN  IF byt = "null" THEN [frames |-> <<>>, err |-> FALSE]
        ELSE IF ~raw.ok THEN [frames |-> <<>>, err |-> TRUE]
        ELSE [frames |-> [i \in 1..Len(raw.frames) |->
                             NewFrame(unescape(raw.frames[i].Function),
                                      unescape(raw.frames[i].File), raw.frames[i].Line)],
              err |-> FALSE]

(***************************************************************************)
(* SpecText: a caller escapes a text and unescapes it, prints frames as    *)
(* text or JSON and parses what was printed.                               *)
(***************************************************************************)
\* The longest function or file name.
MaxName == 2

\* The texts of at most n characters.
RECURSIVE Texts(_)
Texts(n) ==
    IF n = 0 THEN {""}
    ELSE Texts(n - 1) \cup {s \o c : s \in Texts(n - 1),
                                     c \in {"a", "t", "\\", "\t", "\n", "\"", ":", " ", Bell}}

\* The frame lists printed: one synthetic frame with a name of any
\* characters, alone, or before or after a plain frame.
TextFrames ==
    LET fs == {NewFrame(name, "f.go", line) : name \in Texts(MaxName) \ {""}, line \in {1, 12}}
              \cup {NewFrame("fn", name, line) : name \in Texts(MaxName) \ {""}, line \in {1, 12}}
        g == NewFrame("pkg.fn", "/src/a.go", 7)
    IN  {<<f>> : f \in fs} \cup {<<f, g>> : f \in fs} \cup {<<g, f>> : f \in fs}

TextIdle ==
    /\ UNCHANGED <<chain, news>>
    /\ UNCHANGED <<heapVars, frameVars, syncVars>>

TextEscape ==
    /\ out.op = "none"
    /\ \E s \in Texts(MaxName) : out' = [op |-> "escape", args |-> <<s>>, res |-> escape(s)]
    /\ TextIdle

TextUnescape ==
    /\ out.op = "escape"
    /\ out' = [op |-> "unescape", args |-> <<out.res>>, s |-> out.args[1],
               res |-> unescape(out.res)]
    /\ TextIdle

TextFormat ==
    /\ out.op = "none"
    /\ \E ff \in TextFrames :
         out' = [op |-> "Format", args |-> <<ff>>, res |-> FramesFormatPlusV(ff)]
    /\ TextIdle

\* FramesFromBytes of the printed text, whole or with a further line,
\* complete or not
TextFramesFromBytes ==
    /\ out.op = "Format"
    /\ \E more \in {"", "\npkg.fn", "\npkg.fn\n\t/src/a.go:x7"} :
         out' = [op |-> "FramesFromBytes", args |-> <<out.res \o more>>,
                 ff |-> out.args[1], more |-> more,
                 res |-> FramesFromBytes(out.res \o more)]
    /\ TextIdle

TextMarshalJSON ==
    /\ out.op = "none"
    /\ \E ff \in TextFrames \cup {<<>>} :
         out' = [op |-> "MarshalJSON", args |-> <<ff>>, res |-> FramesMarshalJSON(ff)]
    /\ TextIdle

TextFramesFromJSON ==
    /\ out.op = "MarshalJSON"
    /\ ~out.res.err
    /\ out' = [op |-> "FramesFromJSON", args |-> <<out.res.byt>>, ff |-> out.args[1],
               res |-> FramesFromJSON(out.res.byt)]
    /\ TextIdle

NextText ==
    \/ TextEscape
    \/ TextUnescape
    \/ TextFormat
    \/ TextFramesFromBytes
    \/ TextMarshalJSON
    \/ TextFramesFromJSON

SpecText == Init /\ [][NextText]_vars

(***************************************************************************)
(* The call stack functions of callers.go over the runtime helpers.  A     *)
(* stack is the sequence of its program counters, innermost first: the     *)
(* five frames of the library (runtime.Callers, callers, GetStack or       *)
(* GetFrame, getStack or getFrame, the exported function), the caller's    *)
(* frames 1..depth, and runtime.goexit.                                    *)
(***************************************************************************)
\* The sizes of the pcs arrays of GetStack and GetFrame.
StackBuf == 32
FrameBuf == 3

FullStack(depth) == <<101, 102, 103, 104, 105>> \o [i \in 1..depth |-> i] \o <<100>>

\* callers(skip, pcs): runtime.Callers(skip+1, pcs) fills pcs from the frame
\* skip+1 above Callers itself; the first frame is read and dropped, and
\* when Next reports no frame after it the result is empty.
callers(stack, skip, size) ==
    LET pcs == SubSeq(stack, skip + 2, IF Len(stack) < skip + 1 + size THEN Len(stack)
                                       ELSE skip + 1 + size)
    IN  IF Len(pcs) <= 1 THEN <<>> ELSE Tail(pcs)

\* GetStack(skip): the loop appends a frame only when Next reports another
\* one after it, so the last frame is left out.
GetStack(stack, skip) ==
    LET frames == callers(stack, skip, StackBuf)
    IN  SubSeq(frames, 1, Len(frames) - 1)

\* GetFrame(skip): the zero Frame, whose PC is 0, unless Next reports a
\* frame after the one read.
GetFrame(stack, skip) ==
    LET frames == callers(stack, skip, FrameBuf)
    IN  IF Len(frames) >= 2 THEN frames[1] ELSE 0

\* CallStackAt(skipCallers) and CallerAt(skipCallers) called on a stack
CallStackAt(stack, skipCallers) == Frames(getStack(GetStack(stack, skipCallers + 3)))
CallerAt(stack, skipCallers) == getFrame(GetFrame(stack, skipCallers + 3))

\* The deepest stack of a caller.
MaxStack == 32

DoCallStackAt ==
    /\ out.op = "none"
    /\ \E depth \in 1..MaxStack : \E k \in 0..(depth + 2) :
         out' = [op |-> "CallStackAt", args |-> <<k>>, depth |-> depth,
                 res |-> CallStackAt(FullStack(depth), k)]
    /\ UNCHANGED <<chain, news>>
    /\ UNCHANGED <<heapVars, frameVars, syncVars>>

DoCallerAt ==
    /\ out.op = "none"
    /\ \E depth \in 1..MaxStack : \E k \in 0..(depth + 2) :
         out' = [op |-> "CallerAt", args |-> <<k>>, depth |-> depth,
                 res |-> CallerAt(FullStack(depth), k)]
    /\ UNCHANGED <<chain, news>>
    /\ UNCHANGED <<heapVars, frameVars, syncVars>>

NextCallers ==
    \/ DoCallStackAt
    \/ DoCallerAt

SpecCallers == Init /\ [][NextCallers]_vars

(***************************************************************************)
(* SpecFrame: goroutines call Location() on one frame.  Location runs      *)
(* getFunction, getFile, getLine in turn; each reads its cached field and, *)
(* when that is blank and pc is not 0, resolves the value from the runtime *)
(* and writes it to the field.  A step is one getter's read, or one        *)
(* getter's resolution with its write.                                     *)
(***************************************************************************)
NumGoroutines == 3

\* A program counter the runtime has no symbol information for.
pcNoSymbol == 1000

\* stdruntime.FuncForPC(pc): the *Func, nil (0) without symbol information
FuncForPC(pc) == IF pc = pcNoSymbol THEN 0 ELSE pc

\* Variant of memoize that leaves the field as it was.
memoizeNothing(f, field, v) == f

\* f.function = function (f.file = file, f.line = line)
memoize(f, field, v) == [f EXCEPT ![field] = v]

\* Whether a call of Location() has returned.
Completed == \E g \in DOMAIN gor : gor[g].at = "done"

\* The place after a getter, and a getter's result once it is known.
After(g, v) ==
    [gor[g] EXCEPT !.at = (CASE @ = "function" -> "file" [] @ = "file" -> "line"
                             [] OTHER -> "done"),
                   !.resolving = FALSE,
                   !.loc = [@ EXCEPT ![gor[g].at] = v]]

InitFrame ==
    /\ HeapInit
    /\ ChainIdle
    /\ SyncIdle
    /\ \E f \in {frameFromPC(0), frameFromPC(1), frameFromPC(pcNoSymbol),
                 NewFrame("", "", 0), NewFrame("pkg.fn", "/src/a.go", 7),
                 NewFrame("pkg.fn", "", 0)} :
         frame = [pc |-> f.pc, function |-> f.function, file |-> f.file,
                  line |-> f.line, runtimeFn |-> 0]
    /\ gor = [g \in 1..NumGoroutines |->
                 [at |-> "idle", resolving |-> FALSE, late |-> FALSE, wrote |-> FALSE,
                  loc |-> [function |-> "", file |-> "", line |-> 0]]]

FrameIdleRest ==
    /\ UNCHANGED <<chain, news, out>>
    /\ UNCHANGED heapVars
    /\ UNCHANGED syncVars

\* A goroutine calls Location()
LocationCall ==
    /\ \E g \in DOMAIN gor :
         /\ gor[g].at = "idle"
         /\ gor' = [gor EXCEPT ![g] = [@ EXCEPT !.at = "function", !.late = Completed]]
    /\ frame' = frame
    /\ FrameIdleRest

\* The first lines of getFunction, getFile, getLine: the cached field, or
\* "unknown" (0 for the line) when it is blank and pc is 0
GetterRead ==
    /\ \E g \in DOMAIN gor :
         /\ gor[g].at \in {"function", "file", "line"}
         /\ ~gor[g].resolving
         /\ LET at == gor[g].at
                blank == IF at = "line" THEN frame.line = 0 ELSE frame[at] = ""
            IN  gor' = [gor EXCEPT ![g] =
                          IF ~blank THEN After(g, frame[at])
                          ELSE IF frame.pc = 0
                          THEN After(g, IF at = "line" THEN 0 ELSE "unknown")
                          ELSE [@ EXCEPT !.resolving = TRUE]]
    /\ frame' = frame
    /\ FrameIdleRest

\* The resolution in a getter: f.fn() looks the pc up once and keeps the
\* *Func; Name() of a nil *Func is "", FileLine of a nil *Func panics; the
\* value is written to the field.
GetterResolve ==
    /\ \E g \in DOMAIN gor :
         /\ gor[g].resolving
         /\ LET at == gor[g].at
                fn == IF frame.runtimeFn = 0 THEN FuncForPC(frame.pc) ELSE frame.runtimeFn
                v == IF at = "function" THEN (IF fn = 0 THEN "" ELSE FuncName(fn))
                     ELSE IF at = "file" THEN FuncFile(fn) ELSE FuncLine(fn)
            IN  IF fn = 0 /\ at # "function"
                THEN /\ gor' = [gor EXCEPT ![g] = [@ EXCEPT !.at = "panic", !.resolving = FALSE]]
                     /\ frame' = frame
                ELSE /\ gor' = [gor EXCEPT ![g] = [After(g, v) EXCEPT !.wrote = TRUE]]
                     /\ frame' = memoize([frame EXCEPT !.runtimeFn = fn], at, v)
    /\ FrameIdleRest

NextFrame ==
    \/ LocationCall
    \/ GetterRead
    \/ GetterResolve

SpecFrame == InitFrame /\ [][NextFrame]_vars

(***************************************************************************)
(* syncerr: the task groups.  A group's caller starts tasks with Go and    *)
(* then calls Wait; every task is a goroutine that runs f, handles its     *)
(* error and calls wg.Done.  tasks[i] = [at, names, err]: at is "running"  *)
(* (in f), "failed" (f returned a non-nil error), "once" (inside the       *)
(* function passed to once.Do), "locked" and "appended" (holding mu),      *)
(* "deferred" (about to run the deferred calls) or "done".                 *)
(***************************************************************************)
NumTasks == 2

\* strings.Join(names, sep)
RECURSIVE JoinStrings(_, _)
JoinStrings(names, sep) ==
    IF names = <<>> THEN ""
    ELSE IF Len(names) = 1 THEN names[1]
    ELSE names[1] \o sep \o JoinStrings(Tail(names), sep)

\* The program counter of the goroutine function that calls wrapWithNames.
pcTask == NumPCs + 3

\* wrapWithNames(names, err)
wrapWithNames(names, err) ==
    IF Len(names) = 0 THEN err
    ELSE WithFrameAt([k |-> "wrapError",
                      msg |-> JoinStrings(names, ": ") \o ": " \o Error(err),
                      e |-> err], pcTask)

\* The task names a caller passes to Go.
TaskNames == {<<>>, <<"a", "b">>}

Failed(t) == ~isNil(t.err)

\* NewCoordinatedGroup(ctx): innerCtx is context.WithCancel(ctx), cancelled
\* from the start when ctx is.  writes and byOwner are history: the tasks
\* that assigned g.err, and whether the owner of ctx cancelled it.
NewCoordinatedGroup(ctxCancelled) ==
    [kind |-> "coordinated", wg |-> 0, once |-> FALSE, inOnce |-> 0, err |-> NilErr,
     hasCancel |-> TRUE, inner |-> ctxCancelled, outer |-> ctxCancelled,
     main |-> "go", res |-> NilErr, writes |-> <<>>, byOwner |-> ctxCancelled]

\* new(CoordinatedGroup): the zero value, cancel is nil.
ZeroCoordinatedGroup ==
    [kind |-> "coordinated", wg |-> 0, once |-> FALSE, inOnce |-> 0, err |-> NilErr,
     hasCancel |-> FALSE, inner |-> FALSE, outer |-> FALSE,
     main |-> "go", res |-> NilErr, writes |-> <<>>, byOwner |-> FALSE]

\* Variant of cancel that does nothing.
cancelNothing(g) == g

\* g.cancel(): cancels the inner context, which has no children here.
cancel(g) == [g EXCEPT !.inner = TRUE]

\* if g.cancel != nil { g.cancel() }
cancelIfSet(g) == IF g.hasCancel THEN cancel(g) ELSE g

\* Variant of once.Do that runs the function on every call.
OnceRunsAlways(g) == TRUE

\* once.Do(f) runs f when no call of Do has completed yet.
OnceRuns(g) == ~g.once

SyncRest == UNCHANGED <<heapVars, chainVars, frameVars, news>>

\* g.Go(f, names...): wg.Add(1) and the goroutine is started
CoordGo ==
    /\ group.kind = "coordinated"
    /\ group.main = "go"
    /\ Len(tasks) < NumTasks
    /\ \E names \in TaskNames :
         tasks' = Append(tasks, [at |-> "running", names |-> names, err |-> NilErr])
    /\ group' = [group EXCEPT !.wg = @ + 1]
    /\ SyncRest

\* f() returns: nil, a nil pointer in an error, or an error of its own
CoordTaskReturn ==
    /\ group.kind = "coordinated"
    /\ \E i \in DOMAIN tasks :
         /\ tasks[i].at = "running"
         /\ \E err \in {NilErr, TNil, Leaf(i)} :
              tasks' = [tasks EXCEPT ![i] =
                          [@ EXCEPT !.err = err,
                                    !.at = IF isNil(err) THEN "deferred" ELSE "failed"]]
    /\ UNCHANGED group
    /\ SyncRest

\* g.once.Do(func() {...}): the call returns at once when the function has
\* run, waits while another goroutine is in it, and else enters it and
\* assigns g.err
CoordOnceDo ==
    /\ group.kind = "coordinated"
    /\ \E i \in DOMAIN tasks :
         /\ tasks[i].at = "failed"
         /\ IF OnceRuns(group)
            THEN /\ group.inOnce = 0
                 /\ group' = [group EXCEPT
                                !.inOnce = i,
                                !.err = wrapWithNames(tasks[i].names, tasks[i].err),
                                !.writes = Append(@, i)]
                 /\ tasks' = [tasks EXCEPT ![i].at = "once"]
            ELSE /\ tasks' = [tasks EXCEPT ![i].at = "deferred"]
                 /\ UNCHANGED group
    /\ SyncRest

\* the rest of the function passed to once.Do: g.cancel() when it is set
CoordOnceCancel ==
    /\ group.kind = "coordinated"
    /\ \E i \in DOMAIN tasks :
         /\ tasks[i].at = "once"
         /\ group' = [cancelIfSet(group) EXCEPT !.once = TRUE, !.inOnce = 0]
         /\ tasks' = [tasks EXCEPT ![i].at = "deferred"]
    /\ SyncRest

\* defer g.wg.Done()
CoordTaskDone ==
    /\ group.kind = "coordinated"
    /\ \E i \in DOMAIN tasks :
         /\ tasks[i].at = "deferred"
         /\ tasks' = [tasks EXCEPT ![i].at = "done"]
    /\ group' = [group EXCEPT !.wg = @ - 1]
    /\ SyncRest

\* g.Wait() is called: the caller is in wg.Wait()
CoordWaitCall ==
    /\ group.kind = "coordinated"
    /\ group.main = "go"
    /\ group' = [group EXCEPT !.main = "waiting"]
    /\ UNCHANGED tasks
    /\ SyncRest

\* wg.Wait() returns when the counter is zero; Wait cancels and returns g.err
CoordWaitReturn ==
    /\ group.kind = "coordinated"
    /\ group.main = "waiting"
    /\ group.wg = 0
    /\ group' = [cancelIfSet(group) EXCEPT !.main = "returned", !.res = group.err]
    /\ UNCHANGED tasks
    /\ SyncRest

\* The owner of the outer context cancels it, and with it the inner one.
CancelOuter ==
    /\ group.kind = "coordinated"
    /\ group.hasCancel
    /\ ~group.outer
    /\ group' = [group EXCEPT !.outer = TRUE, !.inner = TRUE, !.byOwner = TRUE]
    /\ UNCHANGED tasks
    /\ SyncRest

InitCoord ==
    /\ HeapInit
    /\ ChainIdle
    /\ FrameIdle
    /\ group \in {NewCoordinatedGroup(FALSE), NewCoordinatedGroup(TRUE),
                  ZeroCoordinatedGroup}
    /\ tasks = <<>>

NextCoord ==
    \/ CoordGo
    \/ CoordTaskReturn
    \/ CoordOnceDo
    \/ CoordOnceCancel
    \/ CoordTaskDone
    \/ CoordWaitCall
    \/ CoordWaitReturn
    \/ CancelOuter

SpecCoord == InitCoord /\ [][NextCoord]_vars

\* new(ParallelGroup): the zero value; merr is a nil *MultiError.
NewParallelGroup ==
    [kind |-> "parallel", wg |-> 0, mu |-> 0, merr |-> MErr(0),
     main |-> "go", method |-> "", res |-> NilErr]

\* (*ParallelGroup).WaitForMultiError, after wg.Wait()
WaitForMultiError(g) == g.merr

\* (*ParallelGroup).Wait: the *MultiError of WaitForMultiError, nil or not,
\* returned as an error.
Wait(g) == WaitForMultiError(g)

ParRest == UNCHANGED <<errVar, last, stage, chainVars, frameVars>>

\* g.Go(f, names...): wg.Add(1) and the goroutine is started
ParGo ==
    /\ group.kind = "parallel"
    /\ group.main = "go"
    /\ Len(tasks) < NumTasks
    /\ \E names \in TaskNames :
         tasks' = Append(tasks, [at |-> "running", names |-> names, err |-> NilErr])
    /\ group' = [group EXCEPT !.wg = @ + 1]
    /\ UNCHANGED <<arrays, objs, orig, news>>
    /\ ParRest

\* f() returns: nil, a nil pointer in an error, an error of its own, or a
\* multiError of another package
ParTaskReturn ==
    /\ group.kind = "parallel"
    /\ \E i \in DOMAIN tasks :
         /\ tasks[i].at = "running"
         /\ \E err \in {NilErr, TNil, Leaf(i), Cust(<<Leaf(i), NilErr>>)} :
              tasks' = [tasks EXCEPT ![i] =
                          [@ EXCEPT !.err = err,
                                    !.at = IF isNil(err) THEN "deferred" ELSE "failed"]]
    /\ UNCHANGED group
    /\ UNCHANGED <<arrays, objs, orig, news>>
    /\ ParRest

\* f() returns errors.NewMultiError(e1, e2) of its own two failures
ParTaskReturnMulti ==
    /\ group.kind = "parallel"
    /\ \E i \in DOMAIN tasks :
         /\ tasks[i].at = "running"
         /\ LET r == NewMultiError(<<Leaf(i), Leaf(i + NumTasks)>>) IN
              /\ Returns(r)
              /\ tasks' = [tasks EXCEPT ![i] = [@ EXCEPT !.err = PtrAfter(r),
                                                         !.at = "failed"]]
    /\ UNCHANGED <<group, news>>
    /\ ParRest

\* g.mu.Lock()
ParLock ==
    /\ group.kind = "parallel"
    /\ group.mu = 0
    /\ \E i \in DOMAIN tasks :
         /\ tasks[i].at = "failed"
         /\ tasks' = [tasks EXCEPT ![i].at = "locked"]
         /\ group' = [group EXCEPT !.mu = i]
    /\ UNCHANGED <<arrays, objs, orig, news>>
    /\ ParRest

\* g.merr = errors.Append(g.merr, wrapWithNames(taskNames, err))
ParAppend ==
    /\ group.kind = "parallel"
    /\ \E i \in DOMAIN tasks :
         /\ tasks[i].at = "locked"
         /\ LET appendingErr == wrapWithNames(tasks[i].names, tasks[i].err)
                r == Append_(group.merr, appendingErr)
            IN  /\ Returns(r)
                /\ news' = news + Misuses(appendingErr)
                /\ group' = [group EXCEPT !.merr = PtrAfter(r)]
         /\ tasks' = [tasks EXCEPT ![i].at = "appended"]
    /\ ParRest

\* defer g.mu.Unlock()
ParUnlock ==
    /\ group.kind = "parallel"
    /\ \E i \in DOMAIN tasks :
         /\ tasks[i].at = "appended"
         /\ tasks' = [tasks EXCEPT ![i].at = "deferred"]
    /\ group' = [group EXCEPT !.mu = 0]
    /\ UNCHANGED <<arrays, objs, orig, news>>
    /\ ParRest

\* defer g.wg.Done()
ParTaskDone ==
    /\ group.kind = "parallel"
    /\ \E i \in DOMAIN tasks :
         /\ tasks[i].at = "deferred"
         /\ tasks' = [tasks EXCEPT ![i].at = "done"]
    /\ group' = [group EXCEPT !.wg = @ - 1]
    /\ UNCHANGED <<arrays, objs, orig, news>>
    /\ ParRest

\* g.Wait() or g.WaitForMultiError() is called: the caller is in wg.Wait()
ParWaitCall ==
    /\ group.kind = "parallel"
    /\ group.main = "go"
    /\ \E method \in {"Wait", "WaitForMultiError"} :
         group' = [group EXCEPT !.main = "waiting", !.method = method]
    /\ UNCHANGED tasks
    /\ UNCHANGED <<arrays, objs, orig, news>>
    /\ ParRest

\* wg.Wait() returns when the counter is zero, and the method returns
ParWaitReturn ==
    /\ group.kind = "parallel"
    /\ group.main = "waiting"
    /\ group.wg = 0
    /\ group' = [group EXCEPT
                   !.main = "returned",
                   !.res = IF group.method = "Wait" THEN Wait(group)
                           ELSE WaitForMultiError(group)]
    /\ UNCHANGED tasks
    /\ UNCHANGED <<arrays, objs, orig, news>>
    /\ ParRest

InitPar ==
    /\ HeapInit
    /\ ChainIdle
    /\ FrameIdle
    /\ group = NewParallelGroup
    /\ tasks = <<>>

NextPar ==
    \/ ParGo
    \/ ParTaskReturn
    \/ ParTaskReturnMulti
    \/ ParLock
    \/ ParAppend
    \/ ParUnlock
    \/ ParTaskDone
    \/ ParWaitCall
    \/ ParWaitReturn

SpecPar == InitPar /\ [][NextPar]_vars

(***************************************************************************)
(* Properties of the MultiError collection, checked under Spec.            *)
(***************************************************************************)
\* Whether e is, or has in its Unwrap chain, a value with Errors() []error.
RECURSIVE WrapsMulti(_)
WrapsMulti(e) ==
    \/ e.k \in {"merr", "custom"}
    \/ e.k = "wrap" /\ WrapsMulti(e.e)

\* The leaf errors of e, left to right and depth first.
RECURSIVE LeavesOf(_)
RECURSIVE LeavesOfSeq(_)
LeavesOf(e) ==
    IF e.k \in {"nil", "tnil"} THEN <<>>
    ELSE IF e.k = "merr" THEN LeavesOfSeq(Comps(e.p))
    ELSE IF e.k = "custom" THEN LeavesOfSeq(e.errs)
    ELSE IF e.k = "wrap" /\ WrapsMulti(e.e) THEN LeavesOf(e.e)
    ELSE <<e>>

LeavesOfSeq(s) == IF s = <<>> THEN <<>> ELSE LeavesOf(Head(s)) \o LeavesOfSeq(Tail(s))

\* An error that is not nil, not a typed nil and not (a wrapper of) a multi-error.
Plain(e) == e.k \notin {"nil", "tnil"} /\ ~WrapsMulti(e)

\* C1: whatever calls were made, no component of any MultiError on the heap
\* is nil or a typed nil, and none is or wraps a multi-error.
C1_Flat ==
    \A p \in 1..Len(objs) : \A i \in 1..Len(Comps(p)) : Plain(Comps(p)[i])

\* NewMultiError received a typed nil and a foreign multiError that nests a
\* wrapped foreign multiError, and returned their two leaves.
C1_Witness ==
    /\ stage = "used"
    /\ last.op = "NewMultiError"
    /\ last.args = <<TNil, Cust(<<Wrap(Cust(<<Leaf(2), TNil>>)), NilErr, Leaf(1)>>)>>
    /\ last.res.p = Len(objs)
    /\ Comps(last.res.p) = <<Leaf(2), Leaf(1)>>

\* C2: the components NewMultiError returns are the leaves of its arguments,
\* left to right and depth first, each unchanged, and they are the components
\* NewMultiError returns for that list of leaves itself.
C2_DepthFirstLeaves ==
    (stage = "used" /\ last.op = "NewMultiError") =>
        /\ Comps(last.res.p) = LeavesOfSeq(last.args)
        /\ Comps(last.res.p) = NewMultiError(LeavesOfSeq(last.args)).sl.data
        /\ \A i \in 1..Len(last.args) :
              Plain(last.args[i]) => \E j \in 1..Len(Comps(last.res.p)) :
                                        Comps(last.res.p)[j] = last.args[i]

\* NewMultiError received a wrapped two-component MultiError and a nested
\* foreign multiError.
C2_Witness ==
    /\ stage = "used"
    /\ last.op = "NewMultiError"
    /\ last.args = <<Wrap(MErr(1)), Cust(<<Wrap(Cust(<<Leaf(2), TNil>>)), NilErr, Leaf(1)>>)>>
    /\ Comps(1) = <<Leaf(1), Wrap(Leaf(1))>>
    /\ Comps(last.res.p) = <<Leaf(1), Wrap(Leaf(1)), Leaf(2), Leaf(1)>>

\* C3: after m1 := Append(base, x) and m2 := Append(base, y), every
\* MultiError still has the components it was returned with: base its own,
\* m1 base's followed by x, m2 base's followed by y.
C3_AppendLeavesOperands ==
    (stage = "rebuilt" /\ last.op = "AppendAgain" /\ last.args[1].p # 0
        /\ Plain(last.x)) =>
        /\ \A p \in 1..Len(objs) : Comps(p) = orig[p]
        /\ Comps(last.m1.p) = Comps(last.args[1].p) \o <<last.x>>
        /\ Comps(last.res.p) = Comps(last.args[1].p) \o <<last.args[2]>>

\* C4: ErrorOrNil of a nil or empty MultiError is nil, of a one-component
\* MultiError that component, of a longer one the MultiError itself.
C4_ErrorOrNil ==
    (stage = "used" /\ last.op = "ErrorOrNil") =>
        LET m == last.args[1]
            n == Len(Comps(m.p))
        IN  /\ (m.p = 0 \/ n = 0) => last.res = NilErr
            /\ n = 1 => last.res = Comps(m.p)[1]
            /\ n >= 2 => last.res = m

\* ErrorOrNil was called on a MultiError whose only component is a wrapper.
C4_Witness ==
    /\ stage = "used"
    /\ last.op = "ErrorOrNil"
    /\ last.args[1] = MErr(1)
    /\ Comps(1) = <<Wrap(Leaf(1))>>
    /\ last.res = Wrap(Leaf(1))

C6_AppendRejectsMulti ==
    (stage = "used" /\ last.op = "Append" /\ WrapsMulti(last.args[2])
        /\ ~isNil(last.args[2])) =>
        LET n == Len(LeavesOf(last.args[1])) IN
        /\ Len(Comps(last.res.p)) = n + 1
        /\ SubSeq(Comps(last.res.p), 1, n) = LeavesOf(last.args[1])
        /\ Comps(last.res.p)[n + 1].k = "new"
        /\ Comps(last.res.p)[n + 1].msg =
              "errors.Append used incorrectly: second parameter may not be a multiError"

\* Append received a two-component MultiError and a foreign multiError.
C6_Witness ==
    /\ stage = "used"
    /\ last.op = "Append"
    /\ last.args = <<MErr(1), Cust(<<NilErr, Leaf(1), Leaf(2)>>)>>
    /\ Comps(1) = <<Leaf(2), Leaf(1)>>
    /\ Len(Comps(last.res.p)) = 3
    /\ Comps(last.res.p)[3].k = "new"
    /\ Comps(last.res.p)[3].msg = AppendMisuse

\* The first node of e's Unwrap chain that a target of type T accepts,
\* NilErr if none.
RECURSIVE FirstOfType(_, _)
FirstOfType(e, T) ==
    IF T = "error" \/ TypeOf(e) = T THEN e
    ELSE IF e.k = "wrap" THEN FirstOfType(e.e, T)
    ELSE NilErr

\* Whether target is a node of e's Unwrap chain.
RECURSIVE InChain(_, _)
InChain(e, target) == e = target \/ (e.k = "wrap" /\ InChain(e.e, target))

\* What matching the components of m in list order binds for type T.
FirstMatch(m, T) ==
    LET hits == {i \in 1..Len(Comps(m.p)) : FirstOfType(Comps(m.p)[i], T) # NilErr}
    IN  IF hits = {} THEN NilErr
        ELSE FirstOfType(Comps(m.p)[CHOOSE i \in hits : \A j \in hits : i <= j], T)

\* C7: Is against a MultiError holds exactly when a component has the target
\* in its chain (or, through errors.Is, the target is the MultiError itself);
\* As binds the match of the first component that has one and reports false
\* when none has (through errors.As, a target type the MultiError itself
\* satisfies binds the MultiError); all of them return on a nil or empty
\* MultiError.
C7_IsAs ==
    stage = "used" =>
        LET m == last.args[1]
            inComps == \E i \in 1..Len(Comps(m.p)) : InChain(Comps(m.p)[i], last.args[2])
        IN  /\ last.op = "m.Is" => last.res \in BOOLEAN /\ last.res = inComps
            /\ last.op = "Is" =>
                  last.res \in BOOLEAN /\ last.res = (m = last.args[2] \/ inComps)
            /\ last.op = "m.As" => last.res = FirstMatch(m, last.args[2].msg)
            /\ last.op = "As" =>
                  last.res = IF last.args[2].msg \in {"*MultiError", "multiError", "error"}
                             THEN m ELSE FirstMatch(m, last.args[2].msg)

\* As looked for a customErr in a MultiError whose first component wraps one
\* and whose second component is another.
C7_Witness ==
    /\ stage = "used"
    /\ last.op = "As"
    /\ last.args[1] = MErr(1)
    /\ last.args[2].msg = "customErr"
    /\ Comps(1) = <<Wrap(Leaf(1)), Leaf(2)>>
    /\ last.res = Leaf(1)

(***************************************************************************)
(* Properties of FramesFrom and Mask, checked under SpecChain.             *)
(***************************************************************************)
\* Whether a node of err's chain carries a stack trace.
RECURSIVE HasTrace(_)
HasTrace(err) ==
    err # NilErr /\ (err.k \in {"withStackTrace", "chain", "tracer"}
                        \/ HasTrace(Unwrap(err)))

\* The frames of the stack trace of one node.
TraceOf(err) ==
    IF err.k \in {"withStackTrace", "chain"} THEN err.frames
    ELSE [i \in 1..Len(err.pcs) |->
            [pc |-> err.pcs[i], function |-> "", file |-> "", line |-> 0]]

\* The frames of the stack trace closest to the root of err's chain.
RECURSIVE DeepestTrace(_)
DeepestTrace(err) ==
    IF HasTrace(Unwrap(err)) THEN DeepestTrace(Unwrap(err)) ELSE TraceOf(err)

\* The frame lists of the nodes of err's chain, the innermost node's first.
RECURSIVE AllFrames(_)
AllFrames(err) ==
    IF err = NilErr THEN <<>>
    ELSE AllFrames(Unwrap(err)) \o (IF err.k = "withFrames" THEN err.frames ELSE <<>>)

\* The nodes of err's chain.
RECURSIVE ChainNodes(_)
ChainNodes(err) == IF err = NilErr THEN {} ELSE {err} \cup ChainNodes(Unwrap(err))

\* C8: for a chain with a stack trace, FramesFrom returns the frames of the
\* stack trace closest to the root and nothing else.
C8_DeepestTraceAlone ==
    (out.op = "FramesFrom" /\ HasTrace(out.args[1])) =>
        out.res = DeepestTrace(out.args[1])

\* FramesFrom was called on a frame over a stack trace over another stack trace.
C8_Witness ==
    /\ out.op = "FramesFrom"
    /\ out.args[1].k = "withFrames"
    /\ out.args[1].e.k = "withStackTrace"
    /\ out.args[1].e.frames = getStack(<<1, 1>>)
    /\ out.args[1].e.e.k = "withStackTrace"
    /\ out.args[1].e.e.frames = getStack(<<2, 1>>)
    /\ out.res = getStack(<<2, 1>>)

\* C9: for a chain without a stack trace, FramesFrom returns the frame lists
\* of the nodes one after the other, the innermost node's first, each in its
\* own order; for a chain without frames it returns none.
C9_InnermostFirst ==
    (out.op = "FramesFrom" /\ ~HasTrace(out.args[1])) =>
        out.res = AllFrames(out.args[1])

\* FramesFrom was called on three nested frame attachments, the middle one a
\* list of two.
C9_Witness ==
    /\ out.op = "FramesFrom"
    /\ out.args[1].k = "withFrames"
    /\ out.args[1].frames = <<getFrame(1)>>
    /\ out.args[1].e.k = "withFrames"
    /\ Len(out.args[1].e.frames) = 2
    /\ out.args[1].e.e.k = "withFrames"
    /\ out.args[1].e.e.frames = <<getFrame(2)>>
    /\ out.res = <<getFrame(2)>> \o out.args[1].e.frames \o <<getFrame(1)>>
    /\ Len(out.res) = 4

Locations(ff) == [i \in 1..Len(ff) |-> Location(ff[i])]

\* C11: Opaque(nil) is nil; for a non-nil err, the frames of Opaque(err)
\* have the locations of the frames of err in the same order, and Is matches
\* Opaque(err) with no node of err's chain.
C11_OpaqueKeepsFrames ==
    out.op = "Opaque" =>
        IF out.args[1] = NilErr THEN out.res = NilErr
        ELSE /\ out.res # NilErr
             /\ Locations(FramesFrom(out.res)) = Locations(FramesFrom(out.args[1]))
             /\ \A e \in ChainNodes(out.args[1]) : ~Is(out.res, e)

\* Opaque was called on a chain whose frames include synthetic ones with
\* blank fields.
C11_Witness ==
    /\ out.op = "Opaque"
    /\ out.args[1].k = "withFrames"
    /\ out.args[1].e.k = "withFrames"
    /\ Len(out.args[1].e.frames) = 2
    /\ Len(FramesFrom(out.res)) = 3
    /\ Locations(FramesFrom(out.res))[2] = <<"unknown", "unknown", 0>>

(***************************************************************************)
(* Properties of the errorImpl API, checked under SpecImpl.                *)
(***************************************************************************)
\* C12: Mask(err) and Opaque(err) of a non-nil err do not panic, and their
\* Error() is err.Error() whatever characters the message has.
C12_MessageKept ==
    (out.op \in {"MaskImpl", "OpaqueImpl"} /\ out.args[1] # NilErr)
        => (~isPanic(out.res) /\ Error(out.res) = Error(out.args[1]))

\* Whether every node of res carries the frames (by location, in order) of
\* the node of err at the same place in the chain.
RECURSIVE SameFramesAlong(_, _)
SameFramesAlong(res, err) ==
    IF isNil(err) THEN res = NilErr
    ELSE /\ res # NilErr
         /\ isFramer(err) => Locations(ErrFrames(res)) = Locations(ErrFrames(err))
         /\ SameFramesAlong(Unwrap(res), Unwrap(err))

\* C13: Opaque(err) of the errorImpl API carries, at each node of its chain,
\* the frames of the corresponding node of err, every cause being replaced
\* by its own opaque copy; Opaque(nil) is nil.
C13_OpaqueImplKeepsFrames ==
    out.op = "OpaqueImpl" => SameFramesAlong(out.res, out.args[1])

(***************************************************************************)
(* Properties of the text and JSON forms, checked under SpecText.          *)
(***************************************************************************)
\* Whether e is made of whole escape sequences \\ \t \n \" and of characters
\* other than backslash, tab, newline and double quote.
RECURSIVE WellEscaped(_)
WellEscaped(e) ==
    IF e = "" THEN TRUE
    ELSE IF Head(e) = "\\"
    THEN Len(e) >= 2 /\ SubSeq(e, 2, 2) \in {"\\", "t", "n", "\""}
         /\ WellEscaped(SubSeq(e, 3, Len(e)))
    ELSE Head(e) \notin {"\t", "\n", "\""} /\ WellEscaped(Tail(e))

\* C14: unescaping the escaped form of s gives s, and the escaped form has
\* no raw tab or newline, no double quote without a backslash before it and
\* no backslash outside the sequences \\ \t \n \".
C14_EscapeRoundTrip ==
    /\ out.op = "escape" => WellEscaped(out.res)
    /\ out.op = "unescape" => out.res = out.s

\* A text with a backslash before a letter t has been escaped and unescaped.
C14_Witness == out.op = "unescape" /\ out.s = "\\t" /\ out.args[1] = "\\\\t"

\* C15: FramesFromBytes of the %+v text of synthetic frames with non-empty
\* function and file and line > 0, whatever their characters, returns no
\* error and frames with the same function, file and line in the same order.
C15_TextRoundTrip ==
    (out.op = "FramesFromBytes" /\ out.more = "")
        => (out.res.err = NoErr /\ Locations(out.res.frames) = Locations(out.ff))

\* C17: when FramesFromBytes fails it returns, with the error, every
\* complete frame parsed before the failure.
C17_PrefixKept ==
    (out.op = "FramesFromBytes" /\ out.res.err # NoErr)
        => Locations(out.res.frames) = Locations(framesFromBytes(out.args[1]).frames)

\* C16: Frames.MarshalJSON of synthetic frames with non-empty function and
\* file and line > 0 gives JSON that FramesFromJSON turns into frames with
\* the same function, file and line in the same order; no frames marshal to
\* null, and FramesFromJSON of null is empty with no error.
C16_JSONRoundTrip ==
    /\ out.op = "MarshalJSON" =>
         /\ ~out.res.err
         /\ out.args[1] = <<>> => out.res.byt = "null"
    /\ out.op = "FramesFromJSON" =>
         /\ ~out.res.err
         /\ Locations(out.res.frames) = Locations(out.ff)

(***************************************************************************)
(* Properties of frames and call stacks, checked under SpecFrame and       *)
(* SpecCallers.                                                            *)
(***************************************************************************)
\* C18: Location() of a frame whose location cannot be determined (pc 0, a
\* synthetic frame with blank fields, a pc without symbol information)
\* returns "unknown", "unknown", 0 and does not panic.
C18_UnknownLocation ==
    \A g \in DOMAIN gor :
        (\/ frame.pc = pcNoSymbol
         \/ frame.pc = 0 /\ frame.function = "" /\ frame.file = "" /\ frame.line = 0)
        => /\ gor[g].at # "panic"
           /\ gor[g].at = "done"
                => gor[g].loc = [function |-> "unknown", file |-> "unknown", line |-> 0]

\* C19: element i of CallStackAt(k) is the location CallerAt(k+i) reports,
\* CallStackAt(k) holds every frame from the k-th caller to the root of the
\* stack whatever the depth, and beyond the depth CallStackAt is empty and
\* CallerAt is the unknown frame.
C19_CallStackAt ==
    out.op = "CallStackAt" =>
        LET k == out.args[1]
            stack == FullStack(out.depth)
        IN  /\ \A i \in 1..Len(out.res) :
                  Location(out.res[i]) = Location(CallerAt(stack, k + i - 1))
            /\ Len(out.res) = (IF k < out.depth THEN out.depth - k ELSE 0)
            /\ k >= out.depth =>
                  Location(CallerAt(stack, k)) = <<"unknown", "unknown", 0>>

\* C20: a call of Location() that starts after one has returned writes no
\* field of the frame and returns what every other call returns.
C20_MemoizedLocation ==
    \A g \in DOMAIN gor :
        gor[g].late =>
            /\ ~gor[g].wrote
            /\ \A h \in DOMAIN gor :
                   (gor[g].at = "done" /\ gor[h].at = "done") => gor[g].loc = gor[h].loc

\* A late call has returned on a frame captured from a live stack, after a
\* call that resolved the location and wrote it.
C20_Witness ==
    \E g, h \in DOMAIN gor :
        /\ frame.pc = 1
        /\ gor[g].late /\ gor[g].at = "done"
        /\ gor[h].wrote /\ gor[h].at = "done"


\* The components of an error value as a caller sees them: none for nil,
\* those of a MultiError, else the error alone; an errors.New value is
\* told by its message.
ByMessage(e) == IF e.k = "new" THEN [k |-> "new", msg |-> e.msg] ELSE e

ComponentsOf(err) ==
    LET errs == IF isNil(err) THEN <<>>
                ELSE IF err.k = "merr" THEN Comps(err.p) ELSE <<err>>
    IN  [i \in 1..Len(errs) |-> ByMessage(errs[i])]

\* Append(a, b).ErrorOrNil() seen the same way.
AppendErrorOrNil(a, b) ==
    LET r == Append_(a, b) IN
    IF r.isnil THEN <<>> ELSE [i \in 1..Len(r.sl.data) |-> ByMessage(r.sl.data[i])]

\* C21: starting from a nil err, AppendInto(&err, a); AppendInto(&err, b)
\* leaves err with the components, in order, of Append(a, b).ErrorOrNil(),
\* for any two error values a and b.
C21_AppendIntoAsAppend ==
    (stage = "rebuilt" /\ last.op = "AppendIntoAgain") =>
        ComponentsOf(errVar) = AppendErrorOrNil(last.args[1], last.args[2])

\* The same for operands that are not multiErrors and wrap none.
C21_PlainOperands ==
    (stage = "rebuilt" /\ last.op = "AppendIntoAgain"
        /\ \A i \in 1..2 : unwrapMultiErr(last.args[i]) = NilErr) =>
        ComponentsOf(errVar) = AppendErrorOrNil(last.args[1], last.args[2])


\* C22: WithFrame, WithFrameAt, WithFrames, WithStackTrace and WithMessage
\* return a nil error for a nil error, a nil pointer held in an error
\* interface included.
C22_NilStaysNil ==
    (out.op \in Wrappers /\ isNil(out.args[1])) => out.res = NilErr

\* The same for the nil interface value alone.
C22_UntypedNilStaysNil ==
    (out.op \in Wrappers /\ out.args[1] = NilErr) => out.res = NilErr


ErrorfPanicText ==
    "invalid use of errors.Errorf: format string must wrap an error, but \"%w\" not found"

\* C23: Errorf panics when its format does not wrap an error with %w, with
\* an error that has a stack trace and whose message starts with the text
\* above.
C23_ErrorfPanics ==
    (out.op = "Errorf" /\ ~Contains(out.args[1], "%w")) =>
        /\ isPanic(out.res)
        /\ Len(out.res.msg) >= Len(ErrorfPanicText)
        /\ SubSeq(out.res.msg, 1, Len(ErrorfPanicText)) = ErrorfPanicText
        /\ "frames" \in DOMAIN out.res

\* What Errorf does with such a format: it returns an error that wraps
\* nothing, with the formatted text.
C23_ErrorfReturns ==
    (out.op = "Errorf" /\ ~Contains(out.args[1], "%w")) =>
        /\ out.res.k = "new"
        /\ Unwrap(out.res) = NilErr


\* C24: Join returns a nil error, one for which err != nil is false, when
\* every argument is nil; nil arguments are otherwise discarded.
C24_JoinNil ==
    (stage = "used" /\ last.op = "Join") =>
        IF \A i \in 1..Len(last.args) : isNil(last.args[i])
        THEN last.res = NilErr
        ELSE /\ last.res.k = "merr" /\ last.res.p # 0
             /\ \A i \in 1..Len(Comps(last.res.p)) : ~isNil(Comps(last.res.p)[i])

\* What Join returns for nil arguments: the nil *MultiError of Append, an
\* error value that is not the nil interface; nil arguments are discarded.
C24_JoinTypedNil ==
    (stage = "used" /\ last.op = "Join") =>
        IF \A i \in 1..Len(last.args) : isNil(last.args[i])
        THEN last.res = MErr(0)
        ELSE /\ last.res.k = "merr" /\ last.res.p # 0
             /\ \A i \in 1..Len(Comps(last.res.p)) : ~isNil(Comps(last.res.p)[i])


(***************************************************************************)
(* Properties of the task groups, checked under SpecCoord and SpecPar.     *)
(***************************************************************************)
\* C25: g.err is assigned by one task at most; when Wait has returned every
\* task started with Go has returned, and the result is nil when no task
\* failed and else the name-wrapped error of the task that assigned g.err.
C25_WaitReturnsRecorded ==
    group.kind = "coordinated" =>
        /\ Len(group.writes) <= 1
        /\ group.main = "returned" =>
             /\ \A i \in DOMAIN tasks : tasks[i].at = "done"
             /\ IF \A i \in DOMAIN tasks : ~Failed(tasks[i])
                THEN group.res = NilErr
                ELSE /\ Len(group.writes) = 1
                     /\ Failed(tasks[group.writes[1]])
                     /\ group.res = wrapWithNames(tasks[group.writes[1]].names,
                                                  tasks[group.writes[1]].err)

\* Two tasks failed, the one started second was recorded, with its names.
C25_Witness ==
    /\ group.kind = "coordinated"
    /\ group.main = "returned"
    /\ Len(tasks) = 2
    /\ Failed(tasks[1]) /\ Failed(tasks[2])
    /\ group.writes = <<2>>
    /\ tasks[2].names = <<"a", "b">>
    /\ group.res.k = "withFrames"
    /\ group.res.e.msg = "a: b: err2"

\* C26: the inner context of NewCoordinatedGroup is cancelled once a task
\* that returned a non-nil error is past once.Do, and when Wait has
\* returned; the outer context is cancelled by its owner only.
C26_InnerCancelled ==
    (group.kind = "coordinated" /\ group.hasCancel) =>
        /\ (\E i \in DOMAIN tasks :
              Failed(tasks[i]) /\ tasks[i].at \in {"deferred", "done"}) => group.inner
        /\ group.main = "returned" => group.inner
        /\ group.outer = group.byOwner

\* A task has failed and finished while another is still running and Wait
\* has not returned: the inner context is cancelled, the outer one is not.
C26_Witness ==
    /\ group.kind = "coordinated" /\ group.hasCancel
    /\ group.main # "returned"
    /\ \E i, j \in DOMAIN tasks :
         /\ Failed(tasks[i]) /\ tasks[i].at = "done"
         /\ tasks[j].at = "running"
    /\ group.inner
    /\ ~group.outer


\* The errors of the tasks that failed, as Go hands them to Append.
TaskErrors == {wrapWithNames(tasks[i].names, tasks[i].err) : i \in {j \in DOMAIN tasks : Failed(tasks[j])}}

\* C27: when WaitForMultiError has returned, every task is done and the
\* result holds the (name-wrapped) error of every task that returned a
\* non-nil error, of whatever kind, each once and nothing else.
C27_AllTaskErrors ==
    (group.kind = "parallel" /\ group.main = "returned"
        /\ group.method = "WaitForMultiError") =>
        /\ \A i \in DOMAIN tasks : tasks[i].at = "done"
        /\ {Comps(group.res.p)[n] : n \in 1..Len(Comps(group.res.p))} = TaskErrors
        /\ Len(Comps(group.res.p)) = Cardinality(TaskErrors)

\* The same when no task returned a multiError.
C27_PlainTaskErrors ==
    (group.kind = "parallel" /\ group.main = "returned"
        /\ group.method = "WaitForMultiError"
        /\ \A i \in DOMAIN tasks : unwrapMultiErr(tasks[i].err) = NilErr) =>
        /\ \A i \in DOMAIN tasks : tasks[i].at = "done"
        /\ {Comps(group.res.p)[n] : n \in 1..Len(Comps(group.res.p))} = TaskErrors
        /\ Len(Comps(group.res.p)) = Cardinality(TaskErrors)

\* C28: Wait returns a nil error when no task returned a non-nil error, and
\* a non-nil one exactly when the MultiError of WaitForMultiError has a
\* component.
C28_WaitNil ==
    (group.kind = "parallel" /\ group.main = "returned" /\ group.method = "Wait") =>
        /\ (\A i \in DOMAIN tasks : ~Failed(tasks[i])) => group.res = NilErr
        /\ group.res # NilErr <=> Len_(WaitForMultiError(group).p) >= 1

\* What Wait returns: the pointer of WaitForMultiError, the nil one when no
\* task failed.
C28_WaitTypedNil ==
    (group.kind = "parallel" /\ group.main = "returned" /\ group.method = "Wait") =>
        /\ group.res.k = "merr"
        /\ (\A i \in DOMAIN tasks : ~Failed(tasks[i])) <=> group.res.p = 0


\* C29: when the text parser stops at a line number it cannot parse, the
\* error wraps errMalformedFrame and names the file line, and is not
\* reported as errIncompleteFrame.
C29_MalformedReported ==
    (out.op = "FramesFromBytes" /\ out.more = "\npkg.fn\n\t/src/a.go:x7"
        /\ framesFromBytes(SubSeq(out.args[1], 1, Len(out.args[1]) - Len(out.more))).err
             = NoErr) =>
        /\ out.res.err.wraps = "errMalformedFrame"
        /\ out.res.err.line = "\t/src/a.go:x7"

\* What it returns there: errIncompleteFrame naming the function line.
C29_ReportedIncomplete ==
    (out.op = "FramesFromBytes" /\ out.more = "\npkg.fn\n\t/src/a.go:x7"
        /\ framesFromBytes(SubSeq(out.args[1], 1, Len(out.args[1]) - Len(out.more))).err
             = NoErr) =>
        /\ out.res.err.wraps = "errIncompleteFrame"
        /\ out.res.err.line = "pkg.fn"


\* C30: NewMultiError returns a nil *MultiError exactly when its flattened
\* component list is empty; every non-nil result has Len() >= 1, whatever
\* the arguments.
C30_NilWhenEmpty ==
    (stage = "used" /\ last.op = "NewMultiError") =>
        /\ last.res.p = 0 <=> Len(Comps(last.res.p)) = 0
        /\ last.res.p # 0 => Len_(last.res.p) >= 1

\* What it returns: nil exactly when every argument is nil, a non-nil
\* MultiError otherwise, empty when the non-nil arguments are multiErrors
\* without components.
C30_NilWhenAllNil ==
    (stage = "used" /\ last.op = "NewMultiError") =>
        last.res.p = 0 <=> \A i \in 1..Len(last.args) : isNil(last.args[i])

====
